---------------------------- MODULE Spec2Model ----------------------------
(***************************************************************************)
(* video-ambient-glow: the AmbientGlow instance (src/src/index.ts), the    *)
(* canvas helpers (src/src/lib/canvas.ts) and the frame processor          *)
(* (src/src/lib/frameProcessor.ts), together with the parts of the browser *)
(* they talk to: the video element, the animation-frame queue, timers,     *)
(* the two observers and the console.                                      *)
(*                                                                         *)
(* Numbers.  Fractional options are kept in hundredths (opacity 0.65 is    *)
(* 65, downscale 0.08 is 8, blendOld 0.85 is 85); blur is in px and        *)
(* updateInterval and all timestamps are in ms.  CSS sizes are kept in     *)
(* hundredths of a px (rect.width * scale).  Where the program computes    *)
(* an integer from a fractional option (the pixel size of the surfaces,    *)
(* the samples of a blended frame) the model computes with the doubles     *)
(* the options are: see ToDouble.                                          *)
(*                                                                         *)
(* Pixels.  Every video frame of the model is uniform: each channel sample *)
(* of a frame has the same 8-bit value, and a pixel is kept as that value. *)
(* A bitmap whose pixels all have one value is kept as that value (`val`   *)
(* of an ImageData, `pixels` of the visible surface) with no list of       *)
(* pixels (`data`, `bitmap` are << >>); a bitmap whose pixels differ is    *)
(* kept as the list of its pixels, row by row, and `val` / `pixels` is the *)
(* first of them.  Pixels differ only where a buffer and a surface of      *)
(* different sizes meet.  `ref` is the identity of the JavaScript object.  *)
(*                                                                         *)
(* null.  A nullable object is a record with present = FALSE; a nullable   *)
(* handle (animationFrameId, resizeTimeout) is 0, which no browser hands   *)
(* out.                                                                    *)
(***************************************************************************)
EXTENDS Integers, Sequences, FiniteSets, TLC

(***************************************************************************)
(* Program constants (src/unnamed/part_015 is src/constants.ts)            *)
(***************************************************************************)
DEFAULT_OPTIONS ==
  [blur |-> 96, opacity |-> 65, brightness |-> 110, saturate |-> 120,
   scale |-> 108, downscale |-> 8, updateInterval |-> 98,
   blendOld |-> 85, blendNew |-> 15]

VIDEO_READY_STATE_CURRENT_DATA == 2

MIN_CANVAS_DIMENSION == 1

MIN_VIDEO_DIMENSION == 0

RESIZE_DEBOUNCE_MS == 100

\* A canvas element is 300 x 150 until its width/height are assigned.
DefaultCanvasSize == [width |-> 300, height |-> 150]

\* The seven video events the instance listens to (boundHandlers keys).
VideoEventSet ==
  {"loadstart", "loadedmetadata", "canplay", "play", "pause", "ended", "seeked"}

(***************************************************************************)
(* Bounds of the model                                                     *)
(***************************************************************************)
\* Animation frames delivered to the instance in one behaviour.
MaxFrames == 3

\* Intersection entries that may wait undelivered in the observer.
MaxQueued == 1

\* Animation frames in a run of the loop under jittery frame times, at most.
MaxTicks == 4

\* Entries the intersection callback is given in one call, at most.
MaxBatch == 2

\* Resize signals in one behaviour whose timing is followed.
MaxSignals == 4

(***************************************************************************)
(* Values                                                                  *)
(***************************************************************************)
NullImage ==
  [present |-> FALSE, ref |-> 0, width |-> 0, height |-> 0, val |-> 0, data |-> <<>>]

Min(a, b) == IF a < b THEN a ELSE b

Max(a, b) == IF a > b THEN a ELSE b

\* The value undefined of an option (`blur?: number`): a property that is
\* absent, or present and undefined.  Numbers are >= 0.
Undefined == -1

\* o.k !== undefined
Defined(o, k) == k \in DOMAIN o /\ o[k] # Undefined

\* {...a, ...b} on option objects: the keys of both, b's values winning.
Spread(a, b) ==
  [k \in (DOMAIN a) \cup (DOMAIN b) |-> IF k \in DOMAIN b THEN b[k] ELSE a[k]]

\* The smallest handle the browser has not got pending (handles are > 0).
NewHandle(pending) == CHOOSE h \in 1..(Cardinality(pending) + 1) : h \notin pending

(***************************************************************************)
(* Numbers.  A JavaScript number is an IEEE 754 double.  The doubles the   *)
(* program computes with are non-negative multiples of 2^-72 below 2^24;   *)
(* such a double is kept exactly, as the number of units of 2^-72 it is,   *)
(* written in eight limbs of 12 bits, least significant first (limb 7 is   *)
(* the low limb of the integer part).  An operator names each operand     *)
(* once (x \in {a}) so that the operand is evaluated once however often    *)
(* the operator looks at it.                                               *)
(***************************************************************************)
\* The digits d (eight integers) from digit j on, brought into 0..4095 with
\* `carry` carried into digit j.
RECURSIVE CarryFrom(_, _, _)
CarryFrom(d, j, carry) ==
  IF j > 8 THEN <<>>
  ELSE CHOOSE limbs \in { <<t % 4096>> \o CarryFrom(d, j + 1, t \div 4096) :
                            t \in {d[j] + carry} } : TRUE

Carried(d) == CarryFrom(d, 1, 0)

\* Exact sum, difference (x >= y) and product with an integer m < 2^19.
Plus(a, b) ==
  CHOOSE sum \in { Carried([j \in 1..8 |-> x[j] + y[j]]) : x \in {a}, y \in {b} } : TRUE

Minus(a, b) ==
  CHOOSE difference \in
    { Carried([j \in 1..8 |-> x[j] - y[j]]) : x \in {a}, y \in {b} } : TRUE

Times(a, m) ==
  CHOOSE product \in
    { Carried([j \in 1..8 |-> x[j] * n]) : x \in {a}, n \in {m} } : TRUE

\* The integer n < 2^24.
Integer(n) == <<0, 0, 0, 0, 0, 0, n % 4096, n \div 4096>>

\* a < b.
Less(a, b) ==
  \E x \in {a}, y \in {b} :
     \E j \in 1..8 : x[j] < y[j] /\ \A k \in 1..8 : k > j => x[k] = y[k]

\* floor(x) of a number below 2^24.
IntegerPart(x) == x[7] + 4096 * x[8]

\* Bit i of x (bit 72 is the units bit), and whether a bit below bit i is set.
Bit(x, i) == (x[i \div 12 + 1] \div (2^(i % 12))) % 2

AnyBitBelow(x, i) ==
  \/ \E j \in 1..8 : j <= i \div 12 /\ x[j] # 0
  \/ (x[i \div 12 + 1] % (2^(i % 12))) # 0

RECURSIVE SmallBitLength(_)
SmallBitLength(n) == IF n = 0 THEN 0 ELSE 1 + SmallBitLength(n \div 2)

\* The number of significant bits of x.
BitLength(x) ==
  IF \A j \in 1..8 : x[j] = 0 THEN 0
  ELSE LET top == CHOOSE j \in 1..8 :
                     x[j] # 0 /\ \A k \in 1..8 : k > j => x[k] = 0
       IN  12 * (top - 1) + SmallBitLength(x[top])

\* x with the bits below bit s cleared, and 2^s added when `up`.
RoundedAt(x, s, up) ==
  Carried([j \in 1..8 |->
             IF j <= s \div 12 THEN 0
             ELSE IF j = s \div 12 + 1
             THEN x[j] - (x[j] % (2^(s % 12))) + (IF up THEN 2^(s % 12) ELSE 0)
             ELSE x[j]])

\* The double nearest to a number whose leading bits are x, the one with an
\* even significand of two equally near (round to nearest, ties to even: the
\* rounding of every arithmetic operation on numbers).  `inexact` says that
\* the number is more than x by less than one unit.
RoundToDouble(a, inexact) ==
  CHOOSE double \in
    { IF s <= 0 THEN x
      ELSE RoundedAt(x, s, /\ Bit(x, s - 1) = 1
                           /\ AnyBitBelow(x, s - 1) \/ inexact \/ Bit(x, s) = 1) :
        x \in {a}, s \in {BitLength(a) - 53} } : TRUE

\* Long division of x by d < 2^19 from limb j down, `rem` being the remainder
\* of the limbs above j: the quotient's limbs j..1, most significant first,
\* and then the remainder.
RECURSIVE DivideFrom(_, _, _, _)
DivideFrom(x, d, j, rem) ==
  IF j = 0 THEN <<rem>>
  ELSE CHOOSE digits \in { <<t \div d>> \o DivideFrom(x, d, j - 1, t % d) :
                             t \in {rem * 4096 + x[j]} } : TRUE

\* The double a decimal literal of n hundredths denotes (0.85 is n = 85):
\* the double nearest to n / 100.
Literal(n) ==
  CHOOSE double \in
    { RoundToDouble(<<q[8], q[7], q[6], q[5], q[4], q[3], q[2], q[1]>>, q[9] # 0) :
        q \in {DivideFrom(Integer(n), 100, 8, 0)} } : TRUE

\* The doubles of the literals of the model, computed once.
Literals == [n \in 0..999 |-> Literal(n)]

\* 1 - r in doubles, for a literal r of at most 100 hundredths.
OneMinusDouble(r) == RoundToDouble(Minus(Integer(1), Literals[r]), FALSE)

\* A fractional option is kept as the number n of hundredths whose literal
\* it is, when it is the double of a literal; the double 1 - r that is the
\* double of no literal (1 - 0.7 is 0.30000000000000004) is kept as 1100 - r.
\* 1 - r for an option r of 0..100: the number the model keeps for it.
OneMinus(r) ==
  IF OneMinusDouble(r) = Literals[100 - r] THEN 100 - r ELSE 1100 - r

\* The double a fractional option of the model is.
ToDouble(a) ==
  CHOOSE double \in
    { IF x >= 1000 THEN OneMinusDouble(1100 - x) ELSE Literals[x] : x \in {a} } : TRUE

\* n * x on numbers, for an integer n < 2^19 and a fractional option x: the
\* double nearest to the product.
Product(n, x) == RoundToDouble(Times(ToDouble(x), n), FALSE)

\* The number of hundredths nearest to a fractional option.
Hundredths(x) == IF x >= 1000 THEN x - 1000 ELSE x

\* Math.round(x): the integer nearest to x, the greater of two equally near.
MathRound(a) == CHOOSE n \in { IntegerPart(x) + Bit(x, 71) : x \in {a} } : TRUE

\* Math.round(n * x) for an integer n < 2^19 and a fractional option x.  The
\* product of the doubles is within 2^-30 of the decimal product; a decimal
\* product that is not halfway between two integers is a hundredth or more
\* away from halfway and is rounded as the product of the doubles is.
RoundedProduct(n, x) ==
  IF (n * Hundredths(x)) % 100 # 50
  THEN (n * Hundredths(x) + 50) \div 100
  ELSE MathRound(Product(n, x))

\* Storing x into a Uint8ClampedArray: the integer nearest to x, the even one
\* of two equally near, and at most 255.
ToUint8Clamped(a) ==
  CHOOSE n \in
    { Min(255, IF Bit(x, 71) = 1 /\ (AnyBitBelow(x, 71) \/ IntegerPart(x) % 2 = 1)
               THEN IntegerPart(x) + 1 ELSE IntegerPart(x)) : x \in {a} } : TRUE

(***************************************************************************)
(* State                                                                   *)
(*   phase  "new" before `new AmbientGlow(video, options)`, then "live"    *)
(*          (constructed; a destroyed instance stays "live" and has        *)
(*          glow.isDestroyed) or "failed" (the constructor threw)          *)
(*   glow   the fields of the AmbientGlow instance                         *)
(*   video  the bound HTMLVideoElement, its listeners and its parent       *)
(*   win    the browser: capabilities, animation-frame queue, timers,      *)
(*          observers, window listeners, clock                             *)
(*   hist   history: facts about earlier operations the claims speak of    *)
(*                                                                         *)
(* An operation runs in a context c: c.this (the instance), c.video,       *)
(* c.win, and c.fx, the account of what the operation did (the calls it    *)
(* made, a warning, an exception).  Each method of the source is an        *)
(* operator from the context before the call to the context after it.      *)
(***************************************************************************)
VARIABLES phase, glow, video, win, hist

vars == <<phase, glow, video, win, hist>>

\* `throw new Error(...)`: nothing after it runs until something catches it.
Throw(c, error) == [c EXCEPT !.fx.threw = error]

\* Statement sequencing: F runs unless an exception is propagating.
Then(c, F(_)) == IF c.fx.threw # "" THEN c ELSE F(c)

(***************************************************************************)
(* src/src/lib/canvas.ts                                                   *)
(***************************************************************************)
\* The filter string `blur(..px) brightness(..) saturate(..)`, as its three
\* numbers.
FilterOf(options) ==
  [blur |-> options.blur, brightness |-> options.brightness,
   saturate |-> options.saturate]

\* style.filter of an element that has no filter: the empty string.
NoFilter == [blur |-> Undefined, brightness |-> Undefined, saturate |-> Undefined]

\* canvas.style.filter = `blur(${blur}px) brightness(${brightness})
\* saturate(${saturate})`: the browser takes the string when it parses as a
\* filter; a string with `undefined` in it does not, and the assignment
\* leaves the style as it was.
setFilter(canvas, options) ==
  IF /\ options.blur # Undefined
     /\ options.brightness # Undefined
     /\ options.saturate # Undefined
  THEN [canvas EXCEPT !.filter = FilterOf(options)]
  ELSE canvas

\* canvas.style.opacity = `${opacity}`: the string "undefined" is no opacity
\* and leaves the style as it was.
setOpacity(canvas, options) ==
  IF options.opacity # Undefined
  THEN [canvas EXCEPT !.opacity = options.opacity]
  ELSE canvas

\* Assigning style.cssText replaces the whole inline style: a CSS size, a
\* filter and an opacity the canvas had are gone.
applyCanvasStyles(canvas, options) ==
  setOpacity(setFilter([canvas EXCEPT !.styleWidth = 0,
                                      !.styleHeight = 0,
                                      !.positioned = TRUE,
                                      !.filter = NoFilter,
                                      !.opacity = Undefined],
                       options),
             options)

\* document.createElement('canvas') with aria-hidden set, then styled: no
\* inline style (opacity Undefined is style.opacity ""), 300 x 150
\* transparent pixels.
createGlowCanvas(options) ==
  applyCanvasStyles(
    [width |-> DefaultCanvasSize.width, height |-> DefaultCanvasSize.height,
     styleWidth |-> 0, styleHeight |-> 0, positioned |-> FALSE,
     filter |-> NoFilter, opacity |-> Undefined,
     ariaHidden |-> TRUE, connected |-> FALSE, pixels |-> 0, bitmap |-> <<>>],
    options)

createTempCanvas ==
  [width |-> DefaultCanvasSize.width, height |-> DefaultCanvasSize.height]

\* canvasName is "canvas" or "temporary canvas"; the context exists when the
\* browser gives that canvas a 2D context.
getCanvasContext(c, canvasName) ==
  IF c.win.context2d[canvasName] THEN c ELSE Throw(c, "no 2D context")

updateCanvasFilterStyles(canvas, options) ==
  setOpacity(setFilter(canvas, options), options)

\* getComputedStyle(parent).position: the inline style when there is one,
\* the style sheets' value otherwise.
ComputedPosition(parent) ==
  IF parent.stylePosition # "" THEN parent.stylePosition ELSE parent.cssPosition

ensureParentPositioning(parent) ==
  IF \/ ComputedPosition(parent) = "static"
     \/ parent.stylePosition = ""
  THEN [parent EXCEPT !.stylePosition = "relative"]
  ELSE parent

(***************************************************************************)
(* src/src/lib/frameProcessor.ts                                           *)
(***************************************************************************)
\* A faulty blend: the weighted sum is divided by the sum of the weights.
BlendSample_normalizing(old, new, blendOld, blendNew) ==
  Min(255, (old * Hundredths(blendOld) + new * Hundredths(blendNew))
             \div Max(1, Hundredths(blendOld) + Hundredths(blendNew)))

\* old * blendOld + new * blendNew on numbers: each product is rounded to a
\* double and so is their sum.
WeightedSum(old, new, blendOld, blendNew) ==
  RoundToDouble(Plus(Product(old, blendOld), Product(new, blendNew)), FALSE)

\* old * blendOld + new * blendNew in decimal fractions, in hundredths.
DecimalSum(old, new, blendOld, blendNew) ==
  old * Hundredths(blendOld) + new * Hundredths(blendNew)

\* The loop body of blendFrames for one sample:
\*   oldData[i] = oldData[i] * blendOld + newData[i] * blendNew
\* The sum of the doubles is within 2^-40 of the decimal sum.  A decimal sum
\* that is not halfway between two integers is a hundredth or more away from
\* halfway, so that the store keeps the same integer of both; of a decimal
\* sum that is halfway, the doubles decide what the store keeps.
BlendSample(old, new, blendOld, blendNew) ==
  IF DecimalSum(old, new, blendOld, blendNew) % 100 # 50
  THEN Min(255, (DecimalSum(old, new, blendOld, blendNew) + 50) \div 100)
  ELSE ToUint8Clamped(WeightedSum(old, new, blendOld, blendNew))

\* A faulty blend: the result is put into the new frame, which is returned.
blendFrames_copying(oldFrame, newFrame, blendOld, blendNew) ==
  [newFrame EXCEPT !.val = BlendSample(oldFrame.val, newFrame.val, blendOld, blendNew)]

\* The pixels of a bitmap of size pixels that is kept as (val, data).
PixelsOf(size, val, data) == IF data = <<>> THEN [i \in 1..size |-> val] ELSE data

\* The pixels of an ImageData, row by row.
ImagePixels(image) == PixelsOf(image.width * image.height, image.val, image.data)

\* How a bitmap of the given pixels is kept.
Kept(pixelList) ==
  CHOOSE kept \in
    { IF Len(p) = 0 THEN [val |-> 0, data |-> <<>>]
      ELSE IF \A i \in 1..Len(p) : p[i] = p[1] THEN [val |-> p[1], data |-> <<>>]
      ELSE [val |-> p[1], data |-> p] : p \in {pixelList} } : TRUE

\* An ImageData or a canvas (holder "val" / "data", or "pixels" / "bitmap")
\* with its pixels replaced.  (Here and below an operand that an operator
\* looks at more than once is named once, as in Numbers.)
WithPixels(bitmap, valField, dataField, kept) ==
  CHOOSE result \in
    { [bitmap EXCEPT ![valField] = k.val, ![dataField] = k.data] : k \in {kept} } :
    TRUE

\* oldData[i] * blendOld + newData[i] * blendNew for every i below
\* oldData.length, as stored: where newData has no sample the read gives
\* undefined, the sum is NaN, and the store keeps 0.
BlendedData(oldData, newData, blendOld, blendNew) ==
  [i \in 1..Len(oldData) |->
     IF i <= Len(newData)
     THEN BlendSample(oldData[i], newData[i], blendOld, blendNew)
     ELSE 0]

\* oldFrame is modified in place and returned: same ref, same size.  The
\* loop runs over the samples of oldFrame and reads newFrame at the same
\* index.  Of frames of one value each, the new one not the shorter, one
\* pixel is blended for all.
blendFrames(oldFrame, newFrame, blendOld, blendNew) ==
  CHOOSE result \in
    { IF /\ old.data = <<>> /\ new.data = <<>>
         /\ old.width * old.height <= new.width * new.height
      THEN [old EXCEPT
              !.val = BlendedData(<<old.val>>, <<new.val>>, blendOld, blendNew)[1]]
      ELSE WithPixels(old, "val", "data",
                      Kept(BlendedData(ImagePixels(old), ImagePixels(new),
                                       blendOld, blendNew))) :
        old \in {oldFrame}, new \in {newFrame} } : TRUE

\* tempCtx.getImageData(0, 0, canvasWidth, canvasHeight) after
\* tempCtx.drawImage(video, 0, 0, canvasWidth, canvasHeight): a new object
\* of that size; its pixels within the temporary canvas hold the current
\* frame, its pixels beyond the temporary canvas are transparent black.
NewFrame(c, canvasWidth, canvasHeight, lastImage) ==
  LET temp == c.this.tempCanvas
  IN  WithPixels(
        [present |-> TRUE,
         ref |-> NewHandle({lastImage.ref, c.this.lastImage.ref} \ {0}),
         width |-> canvasWidth, height |-> canvasHeight, val |-> 0, data |-> <<>>],
        "val", "data",
        IF canvasWidth <= temp.width /\ canvasHeight <= temp.height
        THEN [val |-> c.video.frame, data |-> <<>>]
        ELSE Kept([i \in 1..(canvasWidth * canvasHeight) |->
                     IF /\ (i - 1) % canvasWidth < temp.width
                        /\ (i - 1) \div canvasWidth < temp.height
                     THEN c.video.frame ELSE 0]))

\* ctx.putImageData(image, 0, 0): the pixels of the canvas that the image
\* covers, placed at the top left corner, become the image's; the others
\* stay.  An image of one value that covers the canvas leaves it that value.
putImageData(canvas, image) ==
  CHOOSE result \in
    { IF img.data = <<>> /\ img.width >= canvas.width /\ img.height >= canvas.height
      THEN [canvas EXCEPT !.pixels = img.val, !.bitmap = <<>>]
      ELSE WithPixels(canvas, "pixels", "bitmap",
                      Kept([i \in 1..(canvas.width * canvas.height) |->
                              IF /\ (i - 1) % canvas.width < img.width
                                 /\ (i - 1) \div canvas.width < img.height
                              THEN ImagePixels(img)[((i - 1) \div canvas.width) * img.width
                                                     + ((i - 1) % canvas.width) + 1]
                              ELSE PixelsOf(canvas.width * canvas.height,
                                            canvas.pixels, canvas.bitmap)[i]])) :
        img \in {image} } : TRUE

\* A faulty catch clause: the error is logged and no buffer is returned.
catchDrawError_dropping(c, lastImage) ==
  [c |-> [c EXCEPT !.fx.warns = @ + 1], ret |-> NullImage]

\* A faulty catch clause: the error goes on to the caller.
catchDrawError_rethrowing(c, lastImage) ==
  [c |-> Throw(c, "draw failed"), ret |-> lastImage]

\* The catch clause of drawAndBlendFrame (lines 52-56): the error is logged
\* and the previous buffer returned.
catchDrawError(c, lastImage) ==
  [c |-> [c EXCEPT !.fx.warns = @ + 1], ret |-> lastImage]

\* A faulty guard: a sampling width of 0 is not looked at.
cannotSample_ignoringWidth(c, canvasWidth) ==
  c.video.readyState < VIDEO_READY_STATE_CURRENT_DATA

\* The guard of drawAndBlendFrame (line 34).
cannotSample(c, canvasWidth) ==
  c.video.readyState < VIDEO_READY_STATE_CURRENT_DATA \/ canvasWidth = 0

\* The object `image` as it is once blendFrames has returned blendedFrame:
\* blendFrames writes into the object it returns, whoever else refers to it.
AfterBlend(image, blendedFrame) ==
  IF image.present /\ image.ref = blendedFrame.ref THEN blendedFrame ELSE image

\* Lines 46-47 (and the catch clause): blendFrames has returned
\* blendedFrame, the buffer it was given, which the instance may hold;
\* sameSize is whether that buffer has the size of the frame read back.
putBlended(c, lastImage, blendedFrame, sameSize) ==
  CHOOSE result \in
    { IF c.failPut
      THEN catchDrawError([c EXCEPT !.this.lastImage = AfterBlend(@, blended),
                                    !.fx.mismatches = @ + (IF sameSize THEN 0 ELSE 1)],
                          AfterBlend(lastImage, blended))
      ELSE [c |-> [c EXCEPT !.this.lastImage = AfterBlend(@, blended),
                            !.fx.mismatches = @ + (IF sameSize THEN 0 ELSE 1),
                            !.this.canvas = putImageData(@, blended),
                            !.fx.blends = @ + 1],
            ret |-> blended] :
        blended \in {blendedFrame} } : TRUE

\* Lines 49-50 (and the catch clause): the frame read back is written as it
\* is.
putFrame(c, lastImage, newFrame) ==
  CHOOSE result \in
    { IF c.failPut
      THEN catchDrawError(c, lastImage)
      ELSE [c |-> [c EXCEPT !.this.canvas = putImageData(@, frame),
                            !.fx.cuts = @ + 1],
            ret |-> frame] :
        frame \in {newFrame} } : TRUE

\* Returns the context after the call, with the returned ImageData in .ret .
\* c.fail: drawImage or getImageData throws; c.failPut: putImageData throws.
\* Both are inside the try block, and so is blendFrames, which has written
\* into the previous buffer by the time putImageData is called.
\* getImageData throws for a height of 0 (IndexSizeError).
drawAndBlendFrame(c, canvasWidth, canvasHeight, options, lastImage) ==
  IF cannotSample(c, canvasWidth)
  THEN [c |-> c, ret |-> lastImage]
  ELSE IF c.fail \/ canvasHeight = 0
  THEN catchDrawError([c EXCEPT !.fx.draws = @ + 1], lastImage)
  ELSE IF lastImage.present
  THEN putBlended([c EXCEPT !.fx.draws = @ + 1], lastImage,
                  blendFrames(lastImage,
                              NewFrame(c, canvasWidth, canvasHeight, lastImage),
                              options.blendOld, options.blendNew),
                  lastImage.width = canvasWidth /\ lastImage.height = canvasHeight)
  ELSE putFrame([c EXCEPT !.fx.draws = @ + 1], lastImage,
                NewFrame(c, canvasWidth, canvasHeight, lastImage))

(***************************************************************************)
(* src/src/index.ts : class AmbientGlow                                    *)
(***************************************************************************)
\* Field initialisers of the class (lines 49-64); options, canvas and
\* tempCanvas are assigned by the constructor.
NewGlow ==
  [options |-> DEFAULT_OPTIONS,
   canvas |-> createGlowCanvas(DEFAULT_OPTIONS),
   tempCanvas |-> createTempCanvas,
   lastImage |-> NullImage,
   isLooping |-> FALSE,
   animationFrameId |-> 0,
   lastUpdateTime |-> 0,
   resizeTimeout |-> 0,
   boundHandlers |-> {},
   isDestroyed |-> FALSE,
   resizeObserver |-> FALSE,
   intersectionObserver |-> FALSE,
   isVisible |-> TRUE]

\* A faulty normalizeOptions: responsiveness is not turned into weights.
normalizeOptions_merging(options) == Spread(DEFAULT_OPTIONS, options)

normalizeOptions(options) ==
  LET normalized == Spread(DEFAULT_OPTIONS, options)
  IN  IF Defined(options, "responsiveness")
      THEN [normalized EXCEPT !.blendNew = options.responsiveness,
                              !.blendOld = OneMinus(options.responsiveness)]
      ELSE normalized

applyFilterStyles(c) ==
  [c EXCEPT !.this.canvas = updateCanvasFilterStyles(c.this.canvas, c.this.options)]

\* this.animationFrameId = requestAnimationFrame(t => this.animationLoop(t))
requestAnimationFrame(c) ==
  LET h == NewHandle(c.win.rafQueue)
  IN  [c EXCEPT !.win.rafQueue = @ \cup {h},
                !.this.animationFrameId = h,
                !.fx.requests = @ + 1]

\* A faulty sizing: the previous buffer is kept.
setPixelSize_keepingBuffer(c, w, h) ==
  [c EXCEPT !.this.canvas.width = w,
            !.this.canvas.height = h,
            !.this.canvas.pixels = 0,
            !.this.canvas.bitmap = <<>>,
            !.this.tempCanvas.width = w,
            !.this.tempCanvas.height = h,
            !.fx.resizes = @ + 1]

\* Lines 275-279 of resizeCanvas: both surfaces take the pixel size w x h
\* (setting a canvas's width or height clears it) and the previous buffer is
\* dropped.
setPixelSize(c, w, h) ==
  [c EXCEPT !.this.canvas.width = w,
            !.this.canvas.height = h,
            !.this.canvas.pixels = 0,
            !.this.canvas.bitmap = <<>>,
            !.this.tempCanvas.width = w,
            !.this.tempCanvas.height = h,
            !.this.lastImage = NullImage,
            !.fx.resizes = @ + 1]

\* A faulty resize: the pixel size is not kept at MIN_CANVAS_DIMENSION or more.
resizeCanvas_unfloored(c) ==
  IF c.this.isDestroyed THEN c
  ELSE
    LET downscale == c.this.options.downscale
        scale == c.this.options.scale
        rect == c.video.rect
        videoW == IF c.video.videoWidth # 0 THEN c.video.videoWidth ELSE rect.width
        videoH == IF c.video.videoHeight # 0 THEN c.video.videoHeight ELSE rect.height
        w == RoundedProduct(videoW, downscale)
        h == RoundedProduct(videoH, downscale)
        sized == IF c.this.canvas.width # w \/ c.this.canvas.height # h
                 THEN setPixelSize(c, w, h)
                 ELSE c
    IN  IF videoW <= MIN_VIDEO_DIMENSION \/ videoH <= MIN_VIDEO_DIMENSION
        THEN c
        ELSE [sized EXCEPT !.this.canvas.styleWidth = rect.width * scale,
                           !.this.canvas.styleHeight = rect.height * scale,
                           !.fx.styled = @ + 1]

\* A faulty resize: a video without a size is resized to as well.
resizeCanvas_unguarded(c) ==
  IF c.this.isDestroyed THEN c
  ELSE
    LET downscale == c.this.options.downscale
        scale == c.this.options.scale
        rect == c.video.rect
        videoW == IF c.video.videoWidth # 0 THEN c.video.videoWidth ELSE rect.width
        videoH == IF c.video.videoHeight # 0 THEN c.video.videoHeight ELSE rect.height
        w == Max(MIN_CANVAS_DIMENSION, RoundedProduct(videoW, downscale))
        h == Max(MIN_CANVAS_DIMENSION, RoundedProduct(videoH, downscale))
        sized == IF c.this.canvas.width # w \/ c.this.canvas.height # h
                 THEN setPixelSize(c, w, h)
                 ELSE c
    IN  [sized EXCEPT !.this.canvas.styleWidth = rect.width * scale,
                      !.this.canvas.styleHeight = rect.height * scale,
                      !.fx.styled = @ + 1]

resizeCanvas(c) ==
  IF c.this.isDestroyed THEN c
  ELSE
    LET downscale == c.this.options.downscale
        scale == c.this.options.scale
        rect == c.video.rect
        videoW == IF c.video.videoWidth # 0 THEN c.video.videoWidth ELSE rect.width
        videoH == IF c.video.videoHeight # 0 THEN c.video.videoHeight ELSE rect.height
        w == Max(MIN_CANVAS_DIMENSION, RoundedProduct(videoW, downscale))
        h == Max(MIN_CANVAS_DIMENSION, RoundedProduct(videoH, downscale))
        sized == IF c.this.canvas.width # w \/ c.this.canvas.height # h
                 THEN setPixelSize(c, w, h)
                 ELSE c
    IN  IF videoW <= MIN_VIDEO_DIMENSION \/ videoH <= MIN_VIDEO_DIMENSION
        THEN c
        ELSE [sized EXCEPT !.this.canvas.styleWidth = rect.width * scale,
                           !.this.canvas.styleHeight = rect.height * scale,
                           !.fx.styled = @ + 1]

drawFrame(c) ==
  IF c.this.isDestroyed THEN c
  ELSE IF c.this.canvas.width = 0 THEN c
  ELSE LET r == drawAndBlendFrame(c, c.this.canvas.width, c.this.canvas.height,
                                  c.this.options, c.this.lastImage)
       IN  IF r.c.fx.threw # "" THEN r.c
           ELSE [r.c EXCEPT !.this.lastImage = r.ret]

drawFrameImmediately(c) ==
  IF c.this.isDestroyed THEN c
  ELSE IF c.this.canvas.width = 0 THEN c
  ELSE LET r == drawAndBlendFrame(c, c.this.canvas.width, c.this.canvas.height,
                                  c.this.options, NullImage)
       IN  IF r.c.fx.threw # "" THEN r.c
           ELSE [r.c EXCEPT !.this.lastImage = r.ret]

\* A faulty resumption: the loop flag is set and no callback is requested.
handleVisibilityChange_unscheduled(c) ==
  IF c.this.isDestroyed THEN c
  ELSE IF ~c.this.isVisible
  THEN [c EXCEPT !.this.isLooping = FALSE]
  ELSE IF ~c.video.paused /\ ~c.video.ended
  THEN [c EXCEPT !.this.isLooping = TRUE]
  ELSE c

handleVisibilityChange(c) ==
  IF c.this.isDestroyed THEN c
  ELSE IF ~c.this.isVisible
  THEN [c EXCEPT !.this.isLooping = FALSE]
  ELSE IF ~c.video.paused /\ ~c.video.ended
  THEN LET looping == [c EXCEPT !.this.isLooping = TRUE]
       IN  IF looping.this.animationFrameId = 0
           THEN requestAnimationFrame([looping EXCEPT !.this.lastUpdateTime = 0])
           ELSE looping
  ELSE c

\* The callback given to the IntersectionObserver (lines 167-172).
intersectionCallback(c, entries) ==
  IF c.this.isDestroyed THEN c
  ELSE handleVisibilityChange([c EXCEPT !.this.isVisible = entries[1]])

handleLoadStart(c) ==
  IF c.this.isDestroyed THEN c
  ELSE drawFrameImmediately([c EXCEPT !.this.lastImage = NullImage])

handleLoadedMetadata(c) ==
  IF c.this.isDestroyed THEN c
  ELSE resizeCanvas(c)

handleCanPlay(c) ==
  IF c.this.isDestroyed THEN c
  ELSE Then(resizeCanvas(c), drawFrame)

\* A faulty loop start: a callback is requested whether or not one is pending.
StartLoop_unchecked(c) ==
  requestAnimationFrame([c EXCEPT !.this.isLooping = TRUE,
                                  !.this.lastUpdateTime = 0])

\* Lines 222-226 of handlePlay.
StartLoop(c) ==
  LET looping == [c EXCEPT !.this.isLooping = TRUE]
  IN  IF looping.this.animationFrameId = 0
      THEN requestAnimationFrame([looping EXCEPT !.this.lastUpdateTime = 0])
      ELSE looping

handlePlay(c) ==
  IF c.this.isDestroyed THEN c
  ELSE Then(drawFrameImmediately([c EXCEPT !.this.lastImage = NullImage]), StartLoop)

\* A faulty seeked handler: it samples as the loop does, onto the old buffer.
handleSeeked_blending(c) ==
  IF c.this.isDestroyed THEN c
  ELSE drawFrame(c)

handleSeeked(c) ==
  IF c.this.isDestroyed THEN c
  ELSE drawFrameImmediately([c EXCEPT !.this.lastImage = NullImage])

\* A faulty pause handler: the loop is left running.
handlePause_running(c) == c

handlePause(c) == [c EXCEPT !.this.isLooping = FALSE]

\* A faulty ended handler: it also puts the video back into the paused state.
handleEnded_pausing(c) ==
  [c EXCEPT !.this.isLooping = FALSE, !.video.paused = TRUE, !.video.ended = FALSE]

handleEnded(c) == [c EXCEPT !.this.isLooping = FALSE]

\* A faulty clearTimeout: every pending timer of the page is dropped.
clearTimeout_all(c, id) ==
  [c EXCEPT !.win.timers = {}, !.fx.cancels = @ + 1]

\* clearTimeout(id): a pending timer with that id is dropped.
clearTimeout(c, id) ==
  [c EXCEPT !.win.timers = @ \ {id}, !.fx.cancels = @ + 1]

\* A faulty debounce: the pending timer is not cleared.
debouncedResize_stacking(c) ==
  IF c.this.isDestroyed THEN c
  ELSE LET id == NewHandle(c.win.timers)
       IN  [c EXCEPT !.win.timers = @ \cup {id}, !.this.resizeTimeout = id]

debouncedResize(c) ==
  IF c.this.isDestroyed THEN c
  ELSE
    LET cleared == IF c.this.resizeTimeout # 0
                   THEN clearTimeout(c, c.this.resizeTimeout)
                   ELSE c
        id == NewHandle(cleared.win.timers)
    IN  [cleared EXCEPT !.win.timers = @ \cup {id}, !.this.resizeTimeout = id]

\* The function given to window.setTimeout (lines 250-254).
resizeTimeoutCallback(c) ==
  IF c.this.isDestroyed THEN c
  ELSE Then(resizeCanvas(c), drawFrame)

\* A faulty threshold: the one before, the time that has passed dropped.
nextThreshold_stale(currentTime, elapsed, updateInterval) ==
  currentTime - elapsed

\* Lines 348-349 of animationLoop: the time from which the next interval runs.
\* A faulty threshold: the timestamp of the sample itself.
nextThreshold_now(currentTime, elapsed, updateInterval) == currentTime

nextThreshold(currentTime, elapsed, updateInterval) ==
  currentTime - (elapsed % updateInterval)

\* A faulty loop: the threshold is taken anew at every callback.
animationLoop_forgetful(c, currentTime) ==
  IF ~c.this.isLooping \/ c.this.isDestroyed
  THEN [c EXCEPT !.this.animationFrameId = 0]
  ELSE
    LET scheduled == requestAnimationFrame(c)
        based == [scheduled EXCEPT !.this.lastUpdateTime = currentTime]
        elapsed == currentTime - based.this.lastUpdateTime
        updateInterval == based.this.options.updateInterval
    IN  IF elapsed >= updateInterval
        THEN drawFrame([based EXCEPT !.this.lastUpdateTime =
                           nextThreshold(currentTime, elapsed, updateInterval),
                                     !.fx.passes = @ + 1])
        ELSE based

\* A faulty loop: a callback that finds the loop stopped requests the next
\* one all the same.
animationLoop_restless(c, currentTime) ==
  IF c.this.isDestroyed
  THEN [c EXCEPT !.this.animationFrameId = 0]
  ELSE
    LET scheduled == requestAnimationFrame(c)
        based == IF scheduled.this.lastUpdateTime = 0
                 THEN [scheduled EXCEPT !.this.lastUpdateTime = currentTime]
                 ELSE scheduled
        elapsed == currentTime - based.this.lastUpdateTime
        updateInterval == based.this.options.updateInterval
    IN  IF c.this.isLooping /\ elapsed >= updateInterval
        THEN drawFrame([based EXCEPT !.this.lastUpdateTime =
                           nextThreshold(currentTime, elapsed, updateInterval),
                                     !.fx.passes = @ + 1])
        ELSE based

animationLoop(c, currentTime) ==
  IF ~c.this.isLooping \/ c.this.isDestroyed
  THEN [c EXCEPT !.this.animationFrameId = 0]
  ELSE
    LET scheduled == requestAnimationFrame(c)
        based == IF scheduled.this.lastUpdateTime = 0
                 THEN [scheduled EXCEPT !.this.lastUpdateTime = currentTime]
                 ELSE scheduled
        elapsed == currentTime - based.this.lastUpdateTime
        updateInterval == based.this.options.updateInterval
    IN  IF elapsed >= updateInterval
        THEN drawFrame([based EXCEPT !.this.lastUpdateTime =
                           nextThreshold(currentTime, elapsed, updateInterval),
                                     !.fx.passes = @ + 1])
        ELSE based

\* A faulty update: the new options are merged over the defaults, not over
\* the current options.
applyOptions_resetting(c, newOptions) ==
  LET merged == [c EXCEPT !.this.options = normalizeOptions(newOptions)]
      styled == applyFilterStyles(merged)
      resized == IF Defined(newOptions, "downscale") \/ Defined(newOptions, "scale")
                 THEN resizeCanvas(styled)
                 ELSE styled
  IN  Then(resized, drawFrame)

\* A faulty update: the options and the filters are set and no sample is made.
applyOptions_unsampled(c, newOptions) ==
  LET merged == [c EXCEPT !.this.options =
                             normalizeOptions(Spread(c.this.options, newOptions))]
      styled == applyFilterStyles(merged)
  IN  IF Defined(newOptions, "downscale") \/ Defined(newOptions, "scale")
      THEN resizeCanvas(styled)
      ELSE styled

\* Lines 370-377 of updateOptions.
applyOptions(c, newOptions) ==
  LET merged == [c EXCEPT !.this.options =
                             normalizeOptions(Spread(c.this.options, newOptions))]
      styled == applyFilterStyles(merged)
      resized == IF Defined(newOptions, "downscale") \/ Defined(newOptions, "scale")
                 THEN resizeCanvas(styled)
                 ELSE styled
  IN  Then(resized, drawFrame)

\* A faulty updateOptions: no check of the destroyed flag.
updateOptions_unguarded(c, newOptions) == applyOptions(c, newOptions)

updateOptions(c, newOptions) ==
  IF c.this.isDestroyed
  THEN [c EXCEPT !.fx.warns = @ + 1]
  ELSE applyOptions(c, newOptions)

getIsDestroyed(c) == c.this.isDestroyed

\* cancelAnimationFrame(id): a pending callback with that id is dropped.
cancelAnimationFrame(c, id) ==
  [c EXCEPT !.win.rafQueue = @ \ {id}, !.fx.cancels = @ + 1]

\* A faulty set-up: no window listener where there is no ResizeObserver.
setupEventListeners_noFallback(c) ==
  LET bound == [c EXCEPT !.this.boundHandlers = VideoEventSet,
                         !.video.listeners = @ \cup VideoEventSet]
      resize ==
        IF bound.win.hasResizeObserver
        THEN [bound EXCEPT !.this.resizeObserver = TRUE,
                           !.win.resizeObserving = TRUE]
        ELSE bound
  IN  IF resize.win.hasIntersectionObserver
      THEN [resize EXCEPT !.this.intersectionObserver = TRUE,
                          !.win.intersectionObserving = TRUE]
      ELSE resize

setupEventListeners(c) ==
  LET bound == [c EXCEPT !.this.boundHandlers = VideoEventSet,
                         !.video.listeners = @ \cup VideoEventSet]
      resize ==
        IF bound.win.hasResizeObserver
        THEN [bound EXCEPT !.this.resizeObserver = TRUE,
                           !.win.resizeObserving = TRUE]
        ELSE [bound EXCEPT !.this.boundHandlers = @ \cup {"resize"},
                           !.win.windowListeners = @ \cup {"resize"}]
  IN  IF resize.win.hasIntersectionObserver
      THEN [resize EXCEPT !.this.intersectionObserver = TRUE,
                          !.win.intersectionObserving = TRUE]
      ELSE resize

\* A faulty order: the listeners and observers are set up before the parent
\* is checked.
attachCanvas_listening(c) ==
  IF ~c.video.hasParent
  THEN Throw(setupEventListeners(c), "no parent")
  ELSE [c EXCEPT !.video.parent = ensureParentPositioning(c.video.parent),
                 !.this.canvas.connected = TRUE,
                 !.fx.domOps = @ + 1]

\* A faulty attachment: no check that the video has a parent.
attachCanvas_unchecked(c) ==
  [c EXCEPT !.video.parent = ensureParentPositioning(c.video.parent),
            !.this.canvas.connected = TRUE,
            !.fx.domOps = @ + 1]

\* Lines 94-102 of the constructor: the parent check, the parent's
\* positioning and the insertion of the canvas before the video.
attachCanvas(c) ==
  IF ~c.video.hasParent
  THEN Throw(c, "no parent")
  ELSE [c EXCEPT !.video.parent = ensureParentPositioning(c.video.parent),
                 !.this.canvas.connected = TRUE,
                 !.fx.domOps = @ + 1]

\* Lines 91-92 of the constructor.
makeTempCanvas(c) ==
  getCanvasContext([c EXCEPT !.this.tempCanvas = createTempCanvas],
                   "temporary canvas")

constructor(c, options) ==
  LET opts == normalizeOptions(options)
      made == [c EXCEPT !.this.options = opts,
                        !.this.canvas = createGlowCanvas(opts)]
  IN  Then(Then(Then(Then(getCanvasContext(made, "canvas"),
                          makeTempCanvas),
                     attachCanvas),
                setupEventListeners),
           resizeCanvas)

\* A faulty first step of destroy: the destroyed flag is not set.
markDestroyed_unflagged(c) == [c EXCEPT !.this.isLooping = FALSE]

\* Lines 398-400 of destroy.
markDestroyed(c) ==
  [c EXCEPT !.this.isDestroyed = TRUE, !.this.isLooping = FALSE]

\* A faulty second step of destroy: the pending callback is forgotten, not
\* cancelled.
cancelPendingFrame_forgetting(c) == [c EXCEPT !.this.animationFrameId = 0]

\* Lines 401-404 of destroy.
cancelPendingFrame(c) ==
  IF c.this.animationFrameId # 0
  THEN [cancelAnimationFrame(c, c.this.animationFrameId)
          EXCEPT !.this.animationFrameId = 0]
  ELSE c

\* Lines 406-409 of destroy.
cancelPendingResize(c) ==
  IF c.this.resizeTimeout # 0
  THEN [clearTimeout(c, c.this.resizeTimeout) EXCEPT !.this.resizeTimeout = 0]
  ELSE c

\* Lines 411-419 of destroy.  Entries an observer has queued stay queued.
disconnectObservers(c) ==
  LET ro == IF c.this.resizeObserver
            THEN [c EXCEPT !.win.resizeObserving = FALSE,
                           !.this.resizeObserver = FALSE]
            ELSE c
  IN  IF ro.this.intersectionObserver
      THEN [ro EXCEPT !.win.intersectionObserving = FALSE,
                      !.this.intersectionObserver = FALSE]
      ELSE ro

\* Lines 421-428 of destroy.
removeListeners(c) ==
  [c EXCEPT
     !.win.windowListeners = @ \ (c.this.boundHandlers \cap {"resize"}),
     !.video.listeners = @ \ (c.this.boundHandlers \ {"resize"}),
     !.fx.removed = @ + Cardinality(c.this.boundHandlers),
     !.this.boundHandlers = {}]

\* Lines 430-432 of destroy.
removeCanvas(c) ==
  [c EXCEPT !.this.canvas.connected = FALSE,
            !.fx.domOps = @ + 1,
            !.this.lastImage = NullImage]

\* Lines 398-432 of destroy.
teardown(c) ==
  removeCanvas(removeListeners(disconnectObservers(
    cancelPendingResize(cancelPendingFrame(markDestroyed(c))))))

\* A faulty destroy: no check of the destroyed flag.
destroy_unguarded(c) == teardown(c)

destroy(c) ==
  IF c.this.isDestroyed THEN c
  ELSE teardown(c)

(***************************************************************************)
(* The environment.  What the instance reads from the video when an        *)
(* operation runs (readiness, sizes, playback state, the frame shown, and  *)
(* whether drawing or reading back the frame throws) is an input of that   *)
(* operation: between two operations the video may change in any way.  An  *)
(* operation's input varies over the attributes the operation reads.       *)
(***************************************************************************)
\* video.readyState and whether drawImage/getImageData throws: no current
\* frame (HAVE_METADATA); a frame (HAVE_CURRENT_DATA); a frame that cannot be
\* read back.  putImageData does not throw.
Samplings ==
  { [readyState |-> 1, fail |-> FALSE, failPut |-> FALSE],
    [readyState |-> 2, fail |-> FALSE, failPut |-> FALSE],
    [readyState |-> 2, fail |-> TRUE, failPut |-> FALSE] }

\* A frame that is drawn and read back, on a visible surface whose
\* putImageData throws.
PutFailure == [readyState |-> 2, fail |-> FALSE, failPut |-> TRUE]

\* Native size and displayed box of the video: nothing known and no box;
\* metadata and a box.
VideoSizes ==
  { [videoWidth |-> 0, videoHeight |-> 0, rect |-> [width |-> 0, height |-> 0]],
    [videoWidth |-> 20, videoHeight |-> 10, rect |-> [width |-> 100, height |-> 50]] }

\* (paused, ended) of the video.
Playbacks ==
  { [paused |-> TRUE, ended |-> FALSE], [paused |-> FALSE, ended |-> FALSE],
    [paused |-> FALSE, ended |-> TRUE] }

\* The value of every sample of the frame the video shows.
FrameValues == {200}

\* What an operation reads when it reads nothing of the kind.
Unread ==
  [readyState |-> 2, fail |-> FALSE, failPut |-> FALSE,
   videoWidth |-> 20, videoHeight |-> 10, rect |-> [width |-> 100, height |-> 50],
   paused |-> FALSE, ended |-> FALSE, frame |-> 200]

\* The inputs of an operation that reads the readiness (samples), the sizes
\* (resizes), the playback state.
VideoInputs(samples, resizes, playback) ==
  { [readyState |-> sm.readyState, fail |-> sm.fail, failPut |-> sm.failPut,
     videoWidth |-> sz.videoWidth, videoHeight |-> sz.videoHeight, rect |-> sz.rect,
     paused |-> pb.paused, ended |-> pb.ended, frame |-> fv] :
       sm \in (IF samples THEN Samplings
               ELSE {[readyState |-> Unread.readyState, fail |-> Unread.fail,
                      failPut |-> Unread.failPut]}),
       sz \in (IF resizes THEN VideoSizes
               ELSE {[videoWidth |-> Unread.videoWidth,
                      videoHeight |-> Unread.videoHeight, rect |-> Unread.rect]}),
       pb \in (IF playback THEN Playbacks
               ELSE {[paused |-> Unread.paused, ended |-> Unread.ended]}),
       fv \in (IF samples THEN FrameValues ELSE {Unread.frame}) }

\* Time between two animation frames, ms.
FrameSteps == {49}

\* Partial configurations given to the constructor and to updateOptions.
ConstructOptions == { <<>> }

UpdateInputs == { <<>>, [blur |-> 120, opacity |-> 80, downscale |-> 50] }

\* The page's capabilities: (ResizeObserver, IntersectionObserver) defined.
Capabilities == { <<TRUE, TRUE>>, <<FALSE, FALSE>> }

\* Inline and style-sheet position of the video's parent.
ParentStyles == { [stylePosition |-> "", cssPosition |-> "static"] }

\* The video element before construction: with or without a parent.
Videos ==
  { [hasParent |-> hp, parent |-> ps, listeners |-> {}] :
       hp \in BOOLEAN, ps \in ParentStyles }

\* What the page holds of an instance besides the instance itself: its
\* observers with their queued entries, and its listener on the window.
Own(w) ==
  [resizeObserving |-> w.resizeObserving,
   intersectionObserving |-> w.intersectionObserving,
   ioQueue |-> w.ioQueue, windowListeners |-> w.windowListeners]

\* A second AmbientGlow of the page, on another video element under another
\* parent: not constructed yet.
NoOther ==
  [phase |-> "new", glow |-> NewGlow,
   video |-> [hasParent |-> TRUE,
              parent |-> [stylePosition |-> "", cssPosition |-> "static"],
              listeners |-> {}],
   own |-> [resizeObserving |-> FALSE, intersectionObserving |-> FALSE,
            ioQueue |-> <<>>, windowListeners |-> {}]]

Windows ==
  { [hasResizeObserver |-> cap[1], hasIntersectionObserver |-> cap[2],
     context2d |-> [n \in {"canvas", "temporary canvas"} |-> ok],
     rafQueue |-> {}, timers |-> {}, resizeObserving |-> FALSE,
     intersectionObserving |-> FALSE, ioQueue |-> <<>>, windowListeners |-> {},
     now |-> 0, frames |-> 0, other |-> [phase |-> "new"]] :
       cap \in Capabilities, ok \in BOOLEAN }

\* History of the resize signals whose timing is followed: when the pending
\* debounce timer is due, when the last signal came, how many bursts of
\* signals began (a signal with no timer pending begins one), how often the
\* timer fired and when it last did, how many signals came.
NoDebounce ==
  [due |-> 0, last |-> 0, bursts |-> 0, fires |-> 0, firedAt |-> 0, signals |-> 0]

NoHist ==
  [destroyCalled |-> FALSE, cutDue |-> FALSE, frozen |-> FALSE, sampledAt |-> 0,
   baseline |-> 0, debounce |-> NoDebounce]

\* The account of an operation that has done nothing yet.
NoFx ==
  [draws |-> 0, cuts |-> 0, blends |-> 0, mismatches |-> 0,
   resizes |-> 0, styled |-> 0, warns |-> 0, threw |-> "",
   removed |-> 0, cancels |-> 0, domOps |-> 0, requests |-> 0, passes |-> 0]

Init ==
  /\ phase = "new"
  /\ glow = NewGlow
  /\ video \in Videos
  /\ win \in Windows
  /\ hist = NoHist

(***************************************************************************)
(* Operations                                                              *)
(***************************************************************************)
\* The video as the running operation sees it.
VideoNow(in) ==
  [hasParent |-> video.hasParent, parent |-> video.parent,
   listeners |-> video.listeners,
   readyState |-> in.readyState, videoWidth |-> in.videoWidth,
   videoHeight |-> in.videoHeight, rect |-> in.rect,
   paused |-> in.paused, ended |-> in.ended, frame |-> in.frame]

\* The context an operation runs in; fail is whether drawing the frame or
\* reading it back throws during this operation, failPut whether writing to
\* the visible surface does.
Ctx(in) ==
  [this |-> glow, video |-> VideoNow(in), win |-> win, fx |-> NoFx,
   fail |-> in.fail, failPut |-> in.failPut]

\* The state after an operation that ended in context c.  History: a cut is
\* due from a loadstart, play or seeked event (discontinuity) until a cut is
\* written; the glow is frozen from a pause or ended event (freeze) until a
\* play event or a viewport entry while playing (thaw).
HistAfter(c, discontinuity, freeze, thaw, destroying) ==
  [destroyCalled |-> hist.destroyCalled \/ destroying,
   cutDue |-> IF c.fx.cuts > 0 THEN FALSE
              ELSE IF discontinuity THEN TRUE ELSE hist.cutDue,
   frozen |-> IF freeze THEN TRUE
              ELSE IF thaw THEN FALSE ELSE hist.frozen,
   sampledAt |-> hist.sampledAt,
   baseline |-> hist.baseline,
   debounce |-> hist.debounce]

Commit(c, discontinuity, freeze, thaw, destroying) ==
  /\ glow' = c.this
  /\ video' = [hasParent |-> c.video.hasParent, parent |-> c.video.parent,
               listeners |-> c.video.listeners]
  /\ win' = c.win
  /\ hist' = HistAfter(c, discontinuity, freeze, thaw, destroying)

\* new AmbientGlow(video, options)
ConstructResult(options, in) == constructor(Ctx(in), options)

Construct(options, in) ==
  /\ phase = "new"
  /\ phase' = IF ConstructResult(options, in).fx.threw # "" THEN "failed" ELSE "live"
  /\ Commit(ConstructResult(options, in), FALSE, FALSE, FALSE, FALSE)

\* The handler bound to video event e.
Handler(c, e) ==
  CASE e = "loadstart" -> handleLoadStart(c)
    [] e = "loadedmetadata" -> handleLoadedMetadata(c)
    [] e = "canplay" -> handleCanPlay(c)
    [] e = "play" -> handlePlay(c)
    [] e = "pause" -> handlePause(c)
    [] e = "ended" -> handleEnded(c)
    [] e = "seeked" -> handleSeeked(c)

\* The video dispatches event e to the listener the instance attached.
EventResult(e, in) == Handler(Ctx(in), e)

VideoEvent(e, in) ==
  /\ phase = "live"
  /\ e \in video.listeners
  /\ Commit(EventResult(e, in), e \in {"loadstart", "play", "seeked"},
            e \in {"pause", "ended"}, e = "play", FALSE)
  /\ UNCHANGED phase

\* The browser runs the animation-frame callbacks that are pending: it takes
\* them all off the queue and calls each with the frame's timestamp.
RECURSIVE RunCallbacks(_, _, _)
RunCallbacks(c, n, t) ==
  IF n = 0 \/ c.fx.threw # "" THEN c
  ELSE RunCallbacks(animationLoop(c, t), n - 1, t)

FrameResult(step, in) ==
  RunCallbacks([Ctx(in) EXCEPT !.win.rafQueue = {},
                               !.win.now = @ + step,
                               !.win.frames = @ + 1],
               Cardinality(win.rafQueue), win.now + step)

FrameDue == phase = "live" /\ win.rafQueue # {} /\ win.frames < MaxFrames

AnimationFrame(step, in) ==
  /\ FrameDue
  /\ Commit(FrameResult(step, in), FALSE, FALSE, FALSE, FALSE)
  /\ UNCHANGED phase

\* The debounce timer fires.
TimerResult(id, in) ==
  resizeTimeoutCallback([Ctx(in) EXCEPT !.win.timers = @ \ {id}])

TimerFires(in) ==
  /\ phase = "live"
  /\ \E id \in win.timers :
        Commit(TimerResult(id, in), FALSE, FALSE, FALSE, FALSE)
  /\ UNCHANGED phase

\* The ResizeObserver reports the video's box, or the window fires resize.
ResizeResult == debouncedResize(Ctx(Unread))

ResizeDue ==
  phase = "live" /\ (win.resizeObserving \/ "resize" \in win.windowListeners)

ResizeSignal ==
  /\ ResizeDue
  /\ Commit(ResizeResult, FALSE, FALSE, FALSE, FALSE)
  /\ UNCHANGED phase

\* The video crosses the viewport's edge: the observer queues an entry.
IntersectionChange(isIntersecting) ==
  /\ phase = "live"
  /\ win.intersectionObserving
  /\ Len(win.ioQueue) < MaxQueued
  /\ win' = [win EXCEPT !.ioQueue = Append(@, isIntersecting)]
  /\ UNCHANGED <<phase, glow, video, hist>>

\* The observer delivers its queued entries to the callback.
DeliverResult(in) ==
  intersectionCallback([Ctx(in) EXCEPT !.win.ioQueue = <<>>], win.ioQueue)

DeliverDue == phase = "live" /\ win.ioQueue # <<>>

IntersectionDeliver(in) ==
  /\ DeliverDue
  /\ Commit(DeliverResult(in), FALSE, FALSE,
            win.ioQueue[1] /\ ~in.paused /\ ~in.ended, FALSE)
  /\ UNCHANGED phase

\* glow.updateOptions(newOptions)
UpdateResult(newOptions, in) == updateOptions(Ctx(in), newOptions)

UpdateOptions(newOptions, in) ==
  /\ phase = "live"
  /\ Commit(UpdateResult(newOptions, in), FALSE, FALSE, FALSE, FALSE)
  /\ UNCHANGED phase

\* glow.destroy()
DestroyResult == destroy(Ctx(Unread))

Destroy ==
  /\ phase = "live"
  /\ Commit(DestroyResult, FALSE, FALSE, FALSE, TRUE)
  /\ UNCHANGED phase

\* What each operation reads of the video.
ConstructInputs == VideoInputs(FALSE, TRUE, FALSE)

EventInputs(e) ==
  VideoInputs(e \in {"loadstart", "canplay", "play", "seeked"},
              e \in {"loadedmetadata", "canplay"}, FALSE)

FrameInputs == VideoInputs(TRUE, FALSE, FALSE)

TimerInputs == VideoInputs(TRUE, TRUE, FALSE)

DeliverInputs == VideoInputs(FALSE, FALSE, TRUE)

UpdateVideoInputs == VideoInputs(TRUE, TRUE, FALSE)

Next ==
  \/ \E o \in ConstructOptions, in \in ConstructInputs : Construct(o, in)
  \/ \E e \in VideoEventSet : \E in \in EventInputs(e) : VideoEvent(e, in)
  \/ \E step \in FrameSteps, in \in FrameInputs : AnimationFrame(step, in)
  \/ \E in \in TimerInputs : TimerFires(in)
  \/ ResizeSignal
  \/ \E b \in BOOLEAN : IntersectionChange(b)
  \/ \E in \in DeliverInputs : IntersectionDeliver(in)
  \/ \E o \in UpdateInputs, in \in UpdateVideoInputs : UpdateOptions(o, in)
  \/ Destroy

Spec == Init /\ [][Next]_vars

(***************************************************************************)
(* What can happen next.  The contexts in which the operations that can    *)
(* run in the current state end, over all their inputs.                    *)
(***************************************************************************)
EventOutcomes(e) ==
  IF phase = "live" /\ e \in video.listeners
  THEN {EventResult(e, in) : in \in EventInputs(e)}
  ELSE {}

FrameOutcomes ==
  IF FrameDue
  THEN {FrameResult(step, in) : step \in FrameSteps, in \in FrameInputs}
  ELSE {}

TimerOutcomes ==
  IF phase = "live"
  THEN {TimerResult(id, in) : id \in win.timers, in \in TimerInputs}
  ELSE {}

ResizeOutcomes == IF ResizeDue THEN {ResizeResult} ELSE {}

DeliverOutcomes ==
  IF DeliverDue THEN {DeliverResult(in) : in \in DeliverInputs} ELSE {}

UpdateOutcomes ==
  IF phase = "live"
  THEN {UpdateResult(o, in) : o \in UpdateInputs, in \in UpdateVideoInputs}
  ELSE {}

DestroyOutcomes == IF phase = "live" THEN {DestroyResult} ELSE {}

Outcomes ==
  UNION {EventOutcomes(e) : e \in VideoEventSet}
    \cup FrameOutcomes \cup TimerOutcomes \cup ResizeOutcomes
    \cup DeliverOutcomes \cup UpdateOutcomes \cup DestroyOutcomes

ConstructOutcomes ==
  IF phase = "new"
  THEN {ConstructResult(o, in) : o \in ConstructOptions, in \in ConstructInputs}
  ELSE {}

\* The operation ending in r made no sample: no drawImage on the sampling
\* surface (hence no readback) and no write to the visible surface.
NoSample(r) ==
  /\ r.fx.draws = 0 /\ r.fx.cuts = 0 /\ r.fx.blends = 0
  /\ r.this.canvas.pixels = glow.canvas.pixels

\* The operation ending in r made no resize: the pixel and CSS dimensions of
\* the surfaces were not assigned and are what they were.
NoResize(r) ==
  /\ r.fx.resizes = 0 /\ r.fx.styled = 0
  /\ r.this.canvas.width = glow.canvas.width
  /\ r.this.canvas.height = glow.canvas.height
  /\ r.this.canvas.styleWidth = glow.canvas.styleWidth
  /\ r.this.canvas.styleHeight = glow.canvas.styleHeight
  /\ r.this.tempCanvas = glow.tempCanvas

\* The operation ending in r left the video's parent and listeners alone.
SameVideo(r) ==
  /\ r.video.hasParent = video.hasParent
  /\ r.video.parent = video.parent
  /\ r.video.listeners = video.listeners

\* The operation ending in r changed nothing and did nothing.
NoEffect(r) ==
  /\ r.this = glow
  /\ r.win = win
  /\ SameVideo(r)
  /\ r.fx = NoFx

\* The context in which a further operation starts after one ended in r.
Again(r) == [r EXCEPT !.fx = NoFx]

(***************************************************************************)
(* Teardown                                                                *)
(***************************************************************************)
\* The callbacks the instance has handed to the video, the window, the
\* observers, the timer and the animation-frame queue, each called now,
\* whether or not it is still registered (a dispatch that was under way when
\* the instance let go of it).
LateCalls ==
  UNION {{Handler(Ctx(in), e) : in \in EventInputs(e)} : e \in VideoEventSet}
    \cup {debouncedResize(Ctx(Unread))}
    \cup {resizeTimeoutCallback(Ctx(in)) : in \in TimerInputs}
    \cup {animationLoop(Ctx(in), win.now + step) :
             step \in FrameSteps, in \in FrameInputs}
    \cup {intersectionCallback(Ctx(in), <<b>>) :
             b \in BOOLEAN, in \in DeliverInputs}

\* C1: once destroy() has been called, no operation that can still run (a
\* delivery of queued intersection entries, updateOptions, destroy) and no
\* callback of the instance that is still called (a video event handler, the
\* resize callback, the debounce timer's function, the animation-frame
\* callback, the intersection callback) makes a sample or a resize.
C1_NoWorkAfterDestroy ==
  hist.destroyCalled =>
    \A r \in Outcomes \cup LateCalls : NoSample(r) /\ NoResize(r)

\* destroy() was called while the loop ran with a frame in the buffer, and
\* intersection entries queued before it are still delivered, and
\* updateOptions is still called with new values.
C1_Witness ==
  /\ hist.destroyCalled
  /\ DeliverDue
  /\ win.ioQueue[1]
  /\ glow.canvas.pixels # 0
  /\ \E r \in UpdateOutcomes : r.fx.warns = 1

\* C2: from any state of a constructed instance, a second and a third
\* destroy() leave the instance, the video and the browser as the first left
\* them, remove no listener, cancel nothing, touch no DOM node, do not throw.
C2_DestroyIdempotent ==
  phase = "live" =>
    LET once == DestroyResult
        twice == destroy(Again(once))
        thrice == destroy(Again(twice))
    IN  /\ twice = Again(once)
        /\ thrice = Again(once)

\* A first destroy() that cancels the pending animation frame and the pending
\* debounce timer, removes the listeners and the canvas; a second one follows.
C2_Witness ==
  /\ phase = "live"
  /\ ~glow.isDestroyed
  /\ DestroyResult.fx.cancels = 2
  /\ DestroyResult.fx.removed >= 7
  /\ DestroyResult.fx.domOps = 1
  /\ destroy(Again(DestroyResult)).fx = NoFx

\* C3: updateOptions on a destroyed instance does not throw, warns once,
\* leaves the instance (its options, the canvas's filter, opacity and sizes,
\* the previous buffer), the video and the browser as they were, and makes no
\* sample.
C3_UpdateAfterDestroy ==
  glow.isDestroyed =>
    \A r \in UpdateOutcomes :
       /\ r.fx = [NoFx EXCEPT !.warns = 1]
       /\ r.this = glow
       /\ r.win = win
       /\ SameVideo(r)
       /\ NoSample(r)

\* updateOptions is called on a destroyed instance with values that differ
\* from its options, a new downscale among them, while the video is ready.
C3_Witness ==
  /\ glow.isDestroyed
  /\ \E o \in UpdateInputs :
        /\ "downscale" \in DOMAIN o
        /\ o.downscale # glow.options.downscale
        /\ o.blur # glow.options.blur
        /\ \E in \in UpdateVideoInputs :
              /\ in.readyState >= VIDEO_READY_STATE_CURRENT_DATA
              /\ UpdateResult(o, in).fx.warns = 1

\* The state destroy() must leave, of a context r.
TornDown(r) ==
  /\ r.this.isDestroyed
  /\ ~r.this.isLooping
  /\ r.win.rafQueue = {}
  /\ r.win.timers = {}
  /\ ~r.win.resizeObserving
  /\ ~r.win.intersectionObserving
  /\ r.video.listeners \cap VideoEventSet = {}
  /\ "resize" \notin r.win.windowListeners
  /\ ~r.this.canvas.connected
  /\ ~r.this.lastImage.present
  /\ r.video.hasParent

\* C4: from any state of a constructed instance, destroy() returns with the
\* destroyed flag set, the loop flag clear, no animation frame and no timer
\* pending, the observers disconnected, the seven video listeners and the
\* window's resize listener detached, the canvas out of the document, no
\* previous buffer, and the video still under its parent; and once destroy()
\* has been called the destroyed flag is set in every later state.
C4_AfterDestroy ==
  /\ phase = "live" => TornDown(DestroyResult)
  /\ hist.destroyCalled => glow.isDestroyed

\* destroy() has run in a page without observers (the window's resize listener
\* was attached); before it the loop had been started and a resize debounced.
C4_Witness ==
  /\ hist.destroyCalled
  /\ ~win.hasResizeObserver
  /\ "resize" \notin win.windowListeners
  /\ glow.isDestroyed
  /\ glow.lastUpdateTime # 0
  /\ win.rafQueue = {} /\ win.timers = {}
  /\ ~glow.canvas.connected

(***************************************************************************)
(* Errors                                                                  *)
(***************************************************************************)
\* C5: the constructor throws when the video has no parent element; and it
\* throws only then or when a canvas gives no 2D context, with an error that
\* says which.
C5_ConstructionFailures ==
  /\ \A r \in ConstructOutcomes :
        /\ ~video.hasParent => r.fx.threw # ""
        /\ r.fx.threw # "" =>
              \/ ~win.context2d["canvas"] /\ r.fx.threw = "no 2D context"
              \/ ~video.hasParent /\ r.fx.threw = "no parent"
  /\ phase = "failed" => ~video.hasParent \/ ~win.context2d["canvas"]
  /\ phase = "live" => video.hasParent /\ win.context2d["canvas"]

\* A construction has failed on a video without a parent, in a browser that
\* gives 2D contexts.
C5_Witness ==
  /\ phase = "failed"
  /\ ~video.hasParent
  /\ win.context2d["canvas"]
  /\ win.context2d["temporary canvas"]

\* C6: no operation on a constructed instance throws: no video event
\* handler, animation frame, timer function, resize signal, delivery of
\* intersection entries, updateOptions or destroy, whether the video is
\* ready or not, sized or not, readable or not, the instance destroyed or not.
C6_NoThrowAfterConstruction ==
  phase = "live" => \A r \in Outcomes \cup LateCalls : r.fx.threw = ""

\* An animation frame is due whose sample fails at the readback: the failure
\* is logged and the frame's callback returns.
C6_Witness ==
  /\ phase = "live"
  /\ \E r \in FrameOutcomes :
        r.fx.draws = 1 /\ r.fx.warns = 1 /\ r.fx.threw = "" /\ r.fx.cuts = 0

(***************************************************************************)
(* Sampling                                                                *)
(***************************************************************************)
\* C7: a loadstart, play or seeked handler blends nothing and leaves either
\* no previous buffer or the frame it has just written as a cut; and from such
\* an event until a cut is written, no operation blends.
C7_CutAfterDiscontinuity ==
  /\ \A e \in {"loadstart", "play", "seeked"} :
        \A r \in EventOutcomes(e) :
           /\ r.fx.blends = 0
           /\ r.this.lastImage.present => r.fx.cuts = 1
  /\ hist.cutDue =>
        /\ ~glow.lastImage.present
        /\ \A r \in Outcomes : r.fx.blends = 0

\* A seeked (or loadstart or play) event was handled without a sample being
\* written, the loop is running, and the animation frame that is due samples:
\* it writes a cut.
C7_Witness ==
  /\ hist.cutDue
  /\ glow.isLooping
  /\ glow.canvas.pixels # 0
  /\ \E r \in FrameOutcomes : r.fx.cuts = 1 /\ r.fx.blends = 0

\* C8: a previous buffer has the pixel dimensions of the sampling surface and
\* of the visible surface; no blend has operands of different sizes; and an
\* operation that changes the pixel dimensions blends nothing and leaves
\* either no previous buffer or the frame it has then written as a cut, in
\* the new dimensions.  No blend therefore reads past the end of a frame and
\* no write covers a part of the surface only: the pixels of the buffer, and
\* those of the visible surface, all have one value.
C8_BufferMatchesSurface ==
  /\ glow.lastImage.data = <<>>
  /\ glow.canvas.bitmap = <<>>
  /\ glow.lastImage.present =>
        /\ glow.lastImage.width = glow.tempCanvas.width
        /\ glow.lastImage.height = glow.tempCanvas.height
        /\ glow.lastImage.width = glow.canvas.width
        /\ glow.lastImage.height = glow.canvas.height
  /\ \A r \in Outcomes \cup ConstructOutcomes :
        /\ r.fx.mismatches = 0
        /\ r.fx.resizes > 0 =>
              /\ r.fx.blends = 0
              /\ r.this.lastImage.present =>
                    /\ r.fx.cuts = 1
                    /\ r.this.lastImage.width = r.this.tempCanvas.width
                    /\ r.this.lastImage.height = r.this.tempCanvas.height

\* There is a previous buffer, and updateOptions with a new downscale changes
\* the pixel dimensions and then samples: a cut.
C8_Witness ==
  /\ glow.lastImage.present
  /\ \E r \in UpdateOutcomes :
        /\ r.fx.resizes = 1
        /\ r.fx.cuts = 1
        /\ r.this.lastImage.width # glow.lastImage.width

(***************************************************************************)
(* The loop                                                                *)
(***************************************************************************)
\* C9: at most one animation-frame callback is pending; an operation other
\* than the animation frame requests none while one is pending, and the
\* animation frame, which takes the pending one, requests at most one; a pause
\* or ended event while the loop flag is clear changes nothing, and a viewport
\* exit then changes at most the visibility flag.
C9_OneCallbackPending ==
  /\ Cardinality(win.rafQueue) <= 1
  /\ \A r \in Outcomes : Cardinality(r.win.rafQueue) <= 1
  /\ win.rafQueue # {} =>
        \A r \in Outcomes \ FrameOutcomes : r.fx.requests = 0
  /\ \A r \in FrameOutcomes : r.fx.requests <= 1
  /\ ~glow.isLooping =>
        /\ \A e \in {"pause", "ended"} : \A r \in EventOutcomes(e) : NoEffect(r)
        /\ (DeliverDue /\ ~win.ioQueue[1]) =>
              \A r \in DeliverOutcomes :
                 /\ r.this \in {glow, [glow EXCEPT !.isVisible = FALSE]}
                 /\ r.win = [win EXCEPT !.ioQueue = <<>>]
                 /\ r.fx = NoFx

\* The loop was stopped and its last callback is still pending: a play event
\* now sets the loop flag and requests no callback.
C9_Witness ==
  /\ ~glow.isLooping
  /\ win.rafQueue # {}
  /\ \E r \in EventOutcomes("play") : r.this.isLooping /\ r.fx.requests = 0

\* C10: from a pause or ended event until a play event or a delivery of a
\* viewport entry while the video plays, an animation frame makes no sample;
\* and the pause and ended handlers make no sample and leave the previous
\* buffer, the pixels of the visible surface and its place in the document
\* as they were.
C10_FrozenWhilePaused ==
  /\ hist.frozen => \A r \in FrameOutcomes : NoSample(r)
  /\ \A e \in {"pause", "ended"} :
        \A r \in EventOutcomes(e) :
           /\ NoSample(r)
           /\ r.this.lastImage = glow.lastImage
           /\ r.this.canvas.connected = glow.canvas.connected

\* The video was paused while the loop's callback was pending and the glow
\* showed a frame; the animation frame is due.
C10_Witness ==
  /\ hist.frozen
  /\ FrameDue
  /\ glow.lastImage.present
  /\ glow.canvas.connected
  /\ glow.lastUpdateTime # 0

(***************************************************************************)
(* Visibility                                                              *)
(***************************************************************************)
\* What the IntersectionObserver can hand its callback in one call: the
\* changes of the one observed video since the last call, oldest first, each
\* the opposite of the one before; the last entry is where the video is now.
EntryBatches ==
  { entries \in UNION {[1..n -> BOOLEAN] : n \in 1..MaxBatch} :
      \A i \in 1..(Len(entries) - 1) : entries[i + 1] # entries[i] }

\* The intersection callback called with a batch, on each input.
BatchResult(entries, in) == intersectionCallback(Ctx(in), entries)

\* C11: on an instance that is not destroyed and observes the video's
\* intersection with the viewport, when the observer reports that
\* the video has left the viewport the loop flag is cleared and the previous
\* buffer and the visible surface stay as they are; when it reports that the
\* video has entered, the loop runs with a callback pending if the video is
\* neither paused nor ended, and otherwise the loop flag stays as it was and
\* nothing is requested.
C11_ViewportStopsAndRestarts ==
  (phase = "live" /\ ~glow.isDestroyed /\ win.intersectionObserving) =>
    \A entries \in EntryBatches, in \in DeliverInputs :
       LET r == BatchResult(entries, in)
       IN  IF ~entries[Len(entries)]
           THEN /\ ~r.this.isLooping
                /\ r.this.lastImage = glow.lastImage
                /\ r.this.canvas = glow.canvas
                /\ r.fx = NoFx
           ELSE IF ~in.paused /\ ~in.ended
           THEN r.this.isLooping /\ r.win.rafQueue # {}
           ELSE r.this.isLooping = glow.isLooping /\ r.fx.requests = 0

(***************************************************************************)
(* The loop's timing.  A constructed instance whose video plays: play       *)
(* events and animation frames that come at uneven times; the options stay  *)
(* as constructed.  hist.sampledAt is the timestamp of the loop's last      *)
(* sampling pass (its last call of drawFrame; 0: none yet), hist.baseline   *)
(* the timestamp of the last frame at which the loop ran with no threshold  *)
(* set (0: none yet).                                                       *)
(***************************************************************************)
\* Time between two animation frames when frames are late or dropped, ms.
JitterSteps == {49, 90}

\* The browser runs the pending animation-frame callback, step ms after the
\* last frame.
TimedFrame(step, in) ==
  /\ phase = "live"
  /\ win.rafQueue # {}
  /\ win.frames < MaxTicks
  /\ glow' = FrameResult(step, in).this
  /\ win' = FrameResult(step, in).win
  /\ hist' = [hist EXCEPT !.sampledAt =
                 IF FrameResult(step, in).fx.passes > 0 THEN win.now + step ELSE @,
                           !.baseline =
                 IF glow.isLooping /\ ~glow.isDestroyed /\ glow.lastUpdateTime = 0
                 THEN win.now + step ELSE @]
  /\ UNCHANGED <<phase, video>>

TimingNext ==
  \/ \E o \in ConstructOptions, in \in ConstructInputs : Construct(o, in)
  \/ \E in \in EventInputs("play") : VideoEvent("play", in)
  \/ \E step \in JitterSteps, in \in FrameInputs : TimedFrame(step, in)

TimingSpec == Init /\ [][TimingNext]_vars

\* The animation frames that can come next and in which the loop makes a
\* sampling pass, with their steps.
SamplingFrames ==
  IF phase = "live" /\ win.rafQueue # {}
  THEN { f \in [step : JitterSteps, in : FrameInputs] :
           FrameResult(f.step, f.in).fx.passes > 0 }
  ELSE {}

\* C12 as stated: the loop's next sample comes at least updateInterval after
\* its last one.
C12_MinimumSampleSpacing ==
  hist.sampledAt # 0 =>
    \A f \in SamplingFrames :
       (win.now + f.step) - hist.sampledAt >= glow.options.updateInterval

\* C12, amended: the loop samples when at least updateInterval has passed
\* since its threshold (lastUpdateTime); a sample moves the threshold forward
\* by a whole number of intervals, at least one, to within one interval
\* before the sample's timestamp.  So a sample comes after the one before it,
\* each in an interval of its own on the grid the first frame anchors, but
\* possibly less than updateInterval after it.
C12_SamplesOnIntervalGrid ==
  /\ hist.sampledAt # 0 =>
        /\ glow.lastUpdateTime <= hist.sampledAt
        /\ hist.sampledAt < glow.lastUpdateTime + glow.options.updateInterval
  /\ \A f \in SamplingFrames :
        LET r == FrameResult(f.step, f.in)
            t == win.now + f.step
            interval == glow.options.updateInterval
        IN  /\ t - glow.lastUpdateTime >= interval
            /\ r.this.lastUpdateTime >= glow.lastUpdateTime + interval
            /\ (r.this.lastUpdateTime - glow.lastUpdateTime) % interval = 0
            /\ r.this.lastUpdateTime <= t
            /\ t < r.this.lastUpdateTime + interval
            /\ t > hist.sampledAt

\* The loop has sampled, and the next frame samples again, a frame of the
\* video being drawn, less than updateInterval later.
C12_Witness ==
  /\ hist.sampledAt # 0
  /\ \E f \in SamplingFrames :
        /\ FrameResult(f.step, f.in).fx.blends = 1
        /\ (win.now + f.step) - hist.sampledAt < glow.options.updateInterval

(***************************************************************************)
(* The configuration.  Construction and updateOptions with partial         *)
(* configurations of every kind, on a video that is ready.                 *)
(***************************************************************************)
\* The fields of a resolved configuration (NormalizedGlowOptions).
ResolvedFields ==
  {"blur", "opacity", "brightness", "saturate", "scale", "downscale",
   "updateInterval", "blendOld", "blendNew"}

\* Partial configurations (GlowOptions): none of the fields, filter fields, a
\* new downscale, explicit weights, a responsiveness, both, and a field that
\* is present and undefined.
OptionSets ==
  { <<>>,
    [blur |-> 120, opacity |-> 80],
    [downscale |-> 50],
    [blendOld |-> 90, blendNew |-> 10],
    [responsiveness |-> 70],
    [blendOld |-> 90, blendNew |-> 10, responsiveness |-> 25],
    [blur |-> Undefined] }

\* The video during these operations: ready and sized.
OptionsVideoInputs == {Unread}

OptionsNext ==
  \/ \E o \in OptionSets, in \in ConstructInputs : Construct(o, in)
  \/ \E o \in OptionSets, in \in OptionsVideoInputs : UpdateOptions(o, in)
  \/ Destroy

OptionsSpec == Init /\ [][OptionsNext]_vars

\* The contexts in which a construction, or an update of an instance that is
\* not destroyed, can end, each with the partial configuration given.
Configurings ==
  IF phase = "new"
  THEN { [o |-> o, r |-> ConstructResult(o, in)] :
           o \in OptionSets, in \in ConstructInputs }
  ELSE IF phase = "live" /\ ~glow.isDestroyed
  THEN { [o |-> o, r |-> UpdateResult(o, in)] :
           o \in OptionSets, in \in OptionsVideoInputs }
  ELSE {}

\* C13: a construction or an update whose partial configuration defines
\* responsiveness = r resolves blendNew to r and blendOld to 1 - r (the
\* number the subtraction gives: within a hundredth's half of it, and the
\* double nearest to the difference of 1 and the double r), whatever weights
\* the same call gives and whatever the configuration was before.
C13_ResponsivenessOverrides ==
  \A g \in Configurings :
     Defined(g.o, "responsiveness") =>
        /\ g.r.this.options.blendNew = g.o.responsiveness
        /\ Hundredths(g.r.this.options.blendOld) = 100 - g.o.responsiveness
        /\ ToDouble(g.r.this.options.blendOld)
             = RoundToDouble(Minus(Integer(1), ToDouble(g.o.responsiveness)), FALSE)

\* The configuration has explicit weights 0.9/0.1 from an earlier update, and
\* an update that gives weights 0.9/0.1 and responsiveness 0.25 resolves to
\* 0.75/0.25; an update that gives responsiveness 0.7 resolves blendOld to
\* 1 - 0.7, which is the double 0.30000000000000004 and not the double 0.3 .
C13_Witness ==
  /\ phase = "live"
  /\ glow.options.blendOld = 90
  /\ \E g \in Configurings :
        /\ Defined(g.o, "responsiveness") /\ Defined(g.o, "blendOld")
        /\ g.o.blendOld = 90
        /\ g.r.this.options.blendOld = 75
        /\ g.r.this.options.blendNew = 25
  /\ \E g \in Configurings :
        /\ g.o = [responsiveness |-> 70]
        /\ g.r.this.options.blendNew = 70
        /\ Hundredths(g.r.this.options.blendOld) = 30
        /\ ToDouble(g.r.this.options.blendOld) # ToDouble(30)

\* The updates of an instance that is not destroyed.
Updates == IF phase = "live" THEN Configurings ELSE {}

\* C14 as stated: an update leaves every resolved field that its partial
\* configuration does not name as it was.
C14_OnlyNamedFieldsChange ==
  \A g \in Updates :
     \A k \in ResolvedFields \ DOMAIN g.o :
        g.r.this.options[k] = glow.options[k]

\* C14, amended: an update leaves every resolved field as it was that its
\* partial configuration does not name, except blendOld and blendNew when the
\* partial configuration defines responsiveness (which names both: they are
\* derived from it); an empty update changes no field.
C14_OnlyNamedOrDerivedFieldsChange ==
  \A g \in Updates :
     /\ \A k \in ResolvedFields \ DOMAIN g.o :
           (k \in {"blendOld", "blendNew"} /\ Defined(g.o, "responsiveness"))
             \/ g.r.this.options[k] = glow.options[k]
     /\ g.o = <<>> => g.r.this.options = glow.options

\* The configuration differs from the defaults in blur, opacity and downscale,
\* and an update that gives only weights changes the weights and nothing else.
C14_Witness ==
  /\ phase = "live"
  /\ glow.options.blur = 120
  /\ glow.options.downscale = 50
  /\ glow.options.blendOld = 85
  /\ \E g \in Updates :
        /\ DOMAIN g.o = {"blendOld", "blendNew"}
        /\ g.r.this.options.blendOld = 90
        /\ g.r.this.options.blur = 120
        /\ g.r.this.options.downscale = 50

\* The weights the next blend of an instance uses: drawFrame hands
\* this.options to drawAndBlendFrame, which reads blendOld and blendNew of it.
BlendWeights(this) == [blendOld |-> this.options.blendOld,
                       blendNew |-> this.options.blendNew]

\* C15: after an update that gives blendOld and/or blendNew and has no
\* responsiveness field, the next blend uses the given weights, whatever
\* configurations the instance was given before.
C15_LaterWeightsTakeEffect ==
  \A g \in Updates :
     "responsiveness" \notin DOMAIN g.o =>
        \A k \in {"blendOld", "blendNew"} :
           Defined(g.o, k) => BlendWeights(g.r.this)[k] = g.o[k]

\* C16: the resolved configuration of a constructed instance has a defined
\* value for each of the nine resolved fields, whatever partial configurations
\* the constructor and the updates were given.
C16_ConfigurationComplete ==
  phase = "live" => \A k \in ResolvedFields : Defined(glow.options, k)

(***************************************************************************)
(* Sampling: frames of several values, blended with several weights        *)
(***************************************************************************)
\* Channel values of the video's frames.
SampleFrameValues == {13, 45, 200, 255}

\* Configurations that give the blend weights: old only, new only, the
\* defaults, equal halves, and weights whose sum is 1.8 .
WeightSets ==
  { [blendOld |-> 100, blendNew |-> 0], [blendOld |-> 0, blendNew |-> 100],
    <<>>, [blendOld |-> 50, blendNew |-> 50], [blendOld |-> 90, blendNew |-> 90] }

\* What a sample reads of the video: its readiness, whether drawing it
\* fails, and the frame it shows.
SampleInputs ==
  { [Unread EXCEPT !.readyState = sm.readyState, !.fail = sm.fail,
                   !.failPut = sm.failPut, !.frame = fv] :
       sm \in Samplings, fv \in SampleFrameValues }

\* A frame of 45 that is drawn and read back and cannot be written to the
\* visible surface.
UnwrittenInputs ==
  { [Unread EXCEPT !.readyState = PutFailure.readyState, !.fail = PutFailure.fail,
                   !.failPut = PutFailure.failPut, !.frame = 45] }

\* The visible surface shows what the buffer holds: no write has failed
\* since the surface was last written or cleared.
Written ==
  glow.canvas.pixels = (IF glow.lastImage.present THEN glow.lastImage.val ELSE 0)

\* Construction with some weights, then samples that cut (seeked) and samples
\* that blend (updateOptions({}) only re-applies the filter and samples); the
\* write to the visible surface fails once at most between two writes.
SampleNext ==
  \/ \E o \in WeightSets, in \in ConstructInputs : Construct(o, in)
  \/ \E in \in SampleInputs : VideoEvent("seeked", in)
  \/ \E in \in SampleInputs : UpdateOptions(<<>>, in)
  \/ \E in \in UnwrittenInputs : Written /\ UpdateOptions(<<>>, in)

SampleSpec == Init /\ [][SampleNext]_vars

\* The samples of the current state that blend: the instance holds a buffer
\* and updateOptions({}) samples a frame that is ready and can be drawn.
Blendings ==
  IF phase = "live"
  THEN { g \in { [in |-> in, r |-> UpdateResult(<<>>, in)] : in \in SampleInputs } :
           g.r.fx.blends = 1 }
  ELSE {}

\* v is what an 8-bit clamped store keeps of the number x: the value of
\* 0..255 nearest to it (x is at most v + 1/2 unless v is 255, and at least
\* v - 1/2 unless v is 0), the even one of two equally near.
IsClamp8(v, x) ==
  \E twice \in {Plus(x, x)} :
     /\ v \in 0..255
     /\ v < 255 => ~Less(Integer(2 * v + 1), twice)
     /\ v > 0 => ~Less(twice, Integer(2 * v - 1))
     /\ (v < 255 /\ twice = Integer(2 * v + 1)) => v % 2 = 0
     /\ (v > 0 /\ twice = Integer(2 * v - 1)) => v % 2 = 0

\* C17: a blend sets the samples of the buffer to the 8-bit clamped value of
\* previous * wOld + incoming * wNew (the number the program's arithmetic
\* gives for it), whatever the sum of the weights; with weights (1, 0) the
\* samples stay as they were and with weights (0, 1) they become the
\* incoming ones.
C17_BlendIsClampedWeightedSum ==
  \A g \in Blendings :
     LET wOld == glow.options.blendOld
         wNew == glow.options.blendNew
         previous == glow.lastImage.val
         incoming == g.in.frame
         blended == g.r.this.lastImage.val
     IN  /\ IsClamp8(blended, WeightedSum(previous, incoming, wOld, wNew))
         /\ (wOld = 100 /\ wNew = 0) => blended = previous
         /\ (wOld = 0 /\ wNew = 100) => blended = incoming

\* Weights 0.9 and 0.9, a buffer of 52: blended with samples of 45 it becomes
\* 87 (46.8 + 40.5), with samples of 255 it is clamped to 255, and with
\* samples of 13 it becomes 59: the sum of the doubles 46.800000000000004 and
\* 11.700000000000001 is 58.50000000000001 .
C17_Witness ==
  /\ glow.options.blendOld = 90
  /\ glow.options.blendNew = 90
  /\ glow.lastImage.val = 52
  /\ \E g \in Blendings : g.in.frame = 45 /\ g.r.this.lastImage.val = 87
  /\ \E g \in Blendings : g.in.frame = 255 /\ g.r.this.lastImage.val = 255
  /\ \E g \in Blendings : g.in.frame = 13 /\ g.r.this.lastImage.val = 59

\* The calls of drawAndBlendFrame on the surfaces of the current state: with
\* every frame, with the surface's width and with width 0, with the
\* instance's buffer and with no buffer.
SampleCalls ==
  IF phase = "live"
  THEN { [in |-> in, width |-> w, lastImage |-> img,
          r |-> drawAndBlendFrame(Ctx(in), w, glow.canvas.height, glow.options, img)] :
            in \in SampleInputs \cup UnwrittenInputs, w \in {0, glow.canvas.width},
            img \in {NullImage, glow.lastImage} }
  ELSE {}

\* C18: a sample of a video that has no current frame (readyState < 2), or
\* with a sampling width of 0, returns the buffer it was given, the same
\* object with the same contents, and draws, reads and writes nothing.
C18_NotReadyLeavesBuffer ==
  \A s \in SampleCalls :
     (s.in.readyState < 2 \/ s.width = 0) =>
        /\ s.r.ret = s.lastImage
        /\ s.r.c.fx = NoFx
        /\ s.r.c.this.canvas = glow.canvas
        /\ s.r.c.this.tempCanvas = glow.tempCanvas
        /\ s.r.c.this.lastImage = glow.lastImage

\* The instance holds a buffer whose samples differ from the frame's; a sample
\* of a video that is not ready, and a sample of a ready video with width 0,
\* return that buffer.
C18_Witness ==
  /\ glow.lastImage.present
  /\ glow.lastImage.val = 200
  /\ glow.canvas.width > 0
  /\ \E s \in SampleCalls :
        /\ s.in.readyState < 2 /\ s.width > 0 /\ s.in.frame = 45
        /\ s.lastImage.present /\ s.r.ret = glow.lastImage
  /\ \E s \in SampleCalls :
        /\ s.in.readyState >= 2 /\ s.width = 0 /\ s.in.frame = 45 /\ ~s.in.fail
        /\ s.lastImage.present /\ s.r.ret = glow.lastImage

\* The sample passes of the current state that blend with the instance's
\* buffer where there is one (updateOptions({}) calls drawFrame).
SamplePasses ==
  IF phase = "live"
  THEN { [in |-> in, r |-> UpdateResult(<<>>, in)] :
           in \in SampleInputs \cup UnwrittenInputs }
  ELSE {}

\* C19: when drawing the frame or reading it back fails during a sample, the
\* failure is logged as a warning and not thrown, the visible surface is not
\* written, and the sample returns the buffer it was given, so that an
\* instance whose sample pass fails keeps its buffer for the next blend.
C19_FailedSampleKeepsBuffer ==
  /\ \A s \in SampleCalls :
        (s.in.fail /\ s.in.readyState >= 2 /\ s.width > 0) =>
           /\ s.r.c.fx.warns = 1
           /\ s.r.c.fx.threw = ""
           /\ s.r.c.fx.cuts = 0 /\ s.r.c.fx.blends = 0
           /\ s.r.c.this.canvas = glow.canvas
           /\ s.r.ret = s.lastImage
  /\ \A p \in SamplePasses :
        (p.in.fail /\ p.in.readyState >= 2 /\ ~glow.isDestroyed) =>
           /\ p.r.fx.warns = 1
           /\ p.r.fx.threw = ""
           /\ p.r.this.canvas.pixels = glow.canvas.pixels
           /\ p.r.this.lastImage = glow.lastImage

\* The instance holds a buffer and shows a frame of 200; a sample pass on a
\* frame of 45 that cannot be read back warns and leaves both as they are.
C19_Witness ==
  /\ glow.lastImage.present
  /\ glow.lastImage.val = 200
  /\ glow.canvas.pixels = 200
  /\ \E p \in SamplePasses :
        /\ p.in.fail /\ p.in.readyState >= 2 /\ p.in.frame = 45
        /\ p.r.fx.draws = 1 /\ p.r.fx.warns = 1
        /\ p.r.this.lastImage = glow.lastImage
        /\ p.r.this.canvas.pixels = 200

\* C20: a successful sample that is given a buffer blends the frame into that
\* buffer (the instance, whose buffer it is, holds the blended samples when
\* the sample returns), writes it to the visible surface and returns that
\* same buffer; a
\* successful sample that is given no buffer writes the frame as it is to the
\* visible surface and returns it as a new buffer; the instance holds what
\* its sample returned.
C20_SuccessfulSample ==
  /\ \A s \in SampleCalls :
        (~s.in.fail /\ ~s.in.failPut /\ s.in.readyState >= 2 /\ s.width > 0) =>
           IF s.lastImage.present
           THEN /\ s.r.ret.present
                /\ s.r.ret.ref = s.lastImage.ref
                /\ s.r.ret.width = s.lastImage.width
                /\ s.r.ret.height = s.lastImage.height
                /\ IsClamp8(s.r.ret.val,
                            WeightedSum(s.lastImage.val, s.in.frame,
                                        glow.options.blendOld,
                                        glow.options.blendNew))
                /\ s.r.c.this.canvas.pixels = s.r.ret.val
                /\ s.r.c.this.lastImage = s.r.ret
                /\ s.r.c.fx.blends = 1 /\ s.r.c.fx.cuts = 0
           ELSE /\ s.r.ret.present
                /\ s.r.ret.ref # glow.lastImage.ref
                /\ s.r.ret.width = s.width
                /\ s.r.ret.val = s.in.frame
                /\ s.r.c.this.canvas.pixels = s.in.frame
                /\ s.r.c.fx.cuts = 1 /\ s.r.c.fx.blends = 0
  /\ \A p \in SamplePasses :
        (~p.in.fail /\ ~p.in.failPut /\ p.in.readyState >= 2 /\ ~glow.isDestroyed) =>
           /\ p.r.this.lastImage.present
           /\ p.r.this.canvas.pixels = p.r.this.lastImage.val
           /\ IF glow.lastImage.present
              THEN p.r.this.lastImage.ref = glow.lastImage.ref
              ELSE p.r.this.lastImage.val = p.in.frame

\* With the default weights an instance whose buffer holds 200 blends a frame
\* of 45 into it: the same buffer, now 177, on the surface; and the same
\* frame sampled with no buffer gives a new buffer of 45.
C20_Witness ==
  /\ glow.options.blendOld = 85
  /\ glow.lastImage.present
  /\ glow.lastImage.val = 200
  /\ \E p \in SamplePasses :
        /\ p.in.frame = 45
        /\ p.r.fx.blends = 1
        /\ p.r.this.lastImage.ref = glow.lastImage.ref
        /\ p.r.this.lastImage.val = 177
        /\ p.r.this.canvas.pixels = 177
  /\ \E s \in SampleCalls :
        /\ ~s.lastImage.present /\ s.in.frame = 45 /\ s.width > 0
        /\ s.r.c.fx.cuts = 1
        /\ s.r.ret.val = 45
        /\ s.r.ret.ref # glow.lastImage.ref

(***************************************************************************)
(* updateOptions: styling, sampling, resizing                              *)
(***************************************************************************)
\* The value option k has after updateOptions(o): the one given, or the
\* current one.
Merged(o, k) == IF k \in DOMAIN o THEN o[k] ELSE glow.options[k]

\* C21: every updateOptions on an instance that is not destroyed sets the
\* canvas's filter and opacity from the merged options and makes one sample
\* pass of the kind the loop makes: one draw when the video has a frame, none
\* otherwise; a blend when the instance still has its buffer at the sample (no
\* new pixel size), never a cut over a buffer; and it neither starts nor stops
\* the loop, running or not.  (The updates give numbers; what becomes of a
\* field given as undefined is C16.)
C21_UpdateRestylesAndSamplesOnce ==
  (phase = "live" /\ ~glow.isDestroyed) =>
    \A o \in UpdateInputs, in \in UpdateVideoInputs :
       LET r == UpdateResult(o, in)
           ready == in.readyState >= VIDEO_READY_STATE_CURRENT_DATA
       IN  /\ r.this.canvas.filter =
                [blur |-> Merged(o, "blur"), brightness |-> Merged(o, "brightness"),
                 saturate |-> Merged(o, "saturate")]
           /\ r.this.canvas.opacity = Merged(o, "opacity")
           /\ r.fx.draws = (IF ready THEN 1 ELSE 0)
           /\ r.fx.cuts + r.fx.blends = (IF ready /\ ~in.fail THEN 1 ELSE 0)
           /\ (ready /\ ~in.fail) =>
                 (r.fx.blends = 1 <=> (glow.lastImage.present /\ r.fx.resizes = 0))
           /\ r.this.isLooping = glow.isLooping
           /\ r.this.animationFrameId = glow.animationFrameId
           /\ r.fx.requests = 0

\* The video is paused and the loop stopped, the instance holds a buffer, and
\* updateOptions with a new blur restyles the canvas and blends once.
C21_Witness ==
  /\ phase = "live" /\ ~glow.isDestroyed
  /\ hist.frozen /\ ~glow.isLooping
  /\ glow.lastImage.present
  /\ glow.canvas.filter.blur = 96
  /\ \E o \in UpdateInputs, in \in UpdateVideoInputs :
        /\ o # <<>>
        /\ UpdateResult(o, in).this.canvas.filter.blur = 120
        /\ UpdateResult(o, in).fx.blends = 1
        /\ UpdateResult(o, in).fx.draws = 1

(***************************************************************************)
(* Two instances on one page.  The page's animation-frame queue, its       *)
(* timers and its clock are shared; each instance has its own video, its   *)
(* own observers and its own listeners.  The state's instance is A; the    *)
(* other one, B, is kept in win.other .  The browser never gives two       *)
(* requests the same handle: the handles of the instance that is not       *)
(* running are kept HandleShift above the running one's.  A frame of the   *)
(* browser runs the pending callbacks of both instances (PairFrame).       *)
(***************************************************************************)
HandleShift == 10

Shift(S) == { IF h > HandleShift THEN h - HandleShift ELSE h + HandleShift : h \in S }

\* The other instance; until it is constructed the page holds nothing of it.
Other == IF win.other.phase = "new" THEN NoOther ELSE win.other

\* The page as the other instance's operations see it.
OtherWin ==
  [win EXCEPT !.rafQueue = Shift(@),
              !.timers = Shift(@),
              !.resizeObserving = Other.own.resizeObserving,
              !.intersectionObserving = Other.own.intersectionObserving,
              !.ioQueue = Other.own.ioQueue,
              !.windowListeners = Other.own.windowListeners,
              !.other = [phase |-> phase, glow |-> glow, video |-> video,
                         own |-> Own(win)]]

\* The context an operation of B runs in.
OtherCtx(in) ==
  [this |-> Other.glow,
   video |-> [hasParent |-> Other.video.hasParent,
              parent |-> Other.video.parent,
              listeners |-> Other.video.listeners,
              readyState |-> in.readyState, videoWidth |-> in.videoWidth,
              videoHeight |-> in.videoHeight, rect |-> in.rect,
              paused |-> in.paused, ended |-> in.ended, frame |-> in.frame],
   win |-> OtherWin, fx |-> NoFx, fail |-> in.fail, failPut |-> in.failPut]

\* The state after an operation of B that ended in context r, B being in
\* phase ph then; h is the history of A.
CommitOther(r, ph, h) ==
  /\ phase' = r.win.other.phase
  /\ glow' = r.win.other.glow
  /\ video' = r.win.other.video
  /\ win' = [r.win EXCEPT
               !.rafQueue = Shift(@),
               !.timers = Shift(@),
               !.resizeObserving = r.win.other.own.resizeObserving,
               !.intersectionObserving = r.win.other.own.intersectionObserving,
               !.ioQueue = r.win.other.own.ioQueue,
               !.windowListeners = r.win.other.own.windowListeners,
               !.other = [phase |-> ph, glow |-> r.this,
                          video |-> [hasParent |-> r.video.hasParent,
                                     parent |-> r.video.parent,
                                     listeners |-> r.video.listeners],
                          own |-> Own(r.win)]]
  /\ hist' = h

\* The operations of an instance: a video event, an update, the instance's
\* animation-frame callback (on a page with one instance the browser's frame
\* is that callback), a resize signal, its debounce timer, destroy.
PairOps == VideoEventSet \cup {"update", "tick", "resize", "timer", "destroy"}

PairUpdate == [blur |-> 120, downscale |-> 50]

OtherOptions == [opacity |-> 80, responsiveness |-> 40]

\* Operation op can happen to the instance of context c.
Possible(op, c) ==
  CASE op \in VideoEventSet -> op \in c.video.listeners
    [] op = "tick" -> c.this.animationFrameId \in c.win.rafQueue
                        /\ c.win.frames < MaxFrames
    [] op = "resize" -> c.win.resizeObserving \/ "resize" \in c.win.windowListeners
    [] op = "timer" -> c.this.resizeTimeout \in c.win.timers
    [] OTHER -> TRUE

\* Operation op on the instance of context c.
Operation(op, c) ==
  CASE op \in VideoEventSet -> Handler(c, op)
    [] op = "update" -> updateOptions(c, PairUpdate)
    [] op = "tick" ->
         animationLoop([c EXCEPT !.win.rafQueue = @ \ {c.this.animationFrameId},
                                 !.win.now = @ + 49,
                                 !.win.frames = @ + 1],
                       c.win.now + 49)
    [] op = "resize" -> debouncedResize(c)
    [] op = "timer" ->
         resizeTimeoutCallback([c EXCEPT !.win.timers = @ \ {c.this.resizeTimeout}])
    [] op = "destroy" -> destroy(c)

Operates(op) ==
  /\ phase = "live"
  /\ Possible(op, Ctx(Unread))
  /\ Commit(Operation(op, Ctx(Unread)), op \in {"loadstart", "play", "seeked"},
            op \in {"pause", "ended"}, op = "play", op = "destroy")
  /\ UNCHANGED phase

OtherConstruct ==
  /\ phase # "new"
  /\ win.other.phase = "new"
  /\ CommitOther(constructor(OtherCtx(Unread), OtherOptions),
                 IF constructor(OtherCtx(Unread), OtherOptions).fx.threw # ""
                 THEN "failed" ELSE "live",
                 hist)

OtherOperates(op) ==
  /\ win.other.phase = "live"
  /\ Possible(op, OtherCtx(Unread))
  /\ CommitOther(Operation(op, OtherCtx(Unread)), "live", hist)

\* One instance, every operation of it, a video that always has a frame.
SoloNext ==
  \/ Construct(<<>>, Unread)
  \/ \E op \in PairOps : Operates(op)

SoloSpec == Init /\ [][SoloNext]_vars

\* The animation-frame callbacks pending in page w that are A's, and B's.
PendingOfA(w) == {h \in w.rafQueue : h <= HandleShift}

PendingOfB(w) == {h \in w.rafQueue : h > HandleShift}

\* The context B's callbacks run in when A's have ended in context c, A being
\* in phase ph.
Turned(c, ph) ==
  [c EXCEPT !.this = c.win.other.glow,
            !.video.hasParent = c.win.other.video.hasParent,
            !.video.parent = c.win.other.video.parent,
            !.video.listeners = c.win.other.video.listeners,
            !.win.rafQueue = Shift(@),
            !.win.timers = Shift(@),
            !.win.resizeObserving = c.win.other.own.resizeObserving,
            !.win.intersectionObserving = c.win.other.own.intersectionObserving,
            !.win.ioQueue = c.win.other.own.ioQueue,
            !.win.windowListeners = c.win.other.own.windowListeners,
            !.win.other = [phase |-> ph, glow |-> c.this,
                           video |-> [hasParent |-> c.video.hasParent,
                                      parent |-> c.video.parent,
                                      listeners |-> c.video.listeners],
                           own |-> Own(c.win)],
            !.fx = NoFx]

\* The browser's frame on the page of the two instances: it takes all the
\* pending callbacks off the queue and calls each with the frame's one
\* timestamp.  FrameOfA is the context A's callbacks end in, FrameOfB(a)
\* the one B's callbacks end in when A's have ended in a.  (The callbacks
\* run in the order they were requested in; a callback touches nothing of
\* the other instance, so that either order ends in the same state.)
FrameOfA ==
  RunCallbacks([Ctx(Unread) EXCEPT !.win.rafQueue = {},
                                   !.win.now = @ + 49,
                                   !.win.frames = @ + 1],
               Cardinality(PendingOfA(win)), win.now + 49)

FrameOfB(a) ==
  RunCallbacks(Turned(a, phase), Cardinality(PendingOfB(win)), win.now + 49)

PairFrameDue == win.rafQueue # {} /\ win.frames < MaxFrames

PairFrame ==
  /\ PairFrameDue
  /\ \E a \in {FrameOfA} :
        IF win.other.phase = "live"
        THEN CommitOther(FrameOfB(a), "live",
                         HistAfter(a, FALSE, FALSE, FALSE, FALSE))
        ELSE /\ Commit(a, FALSE, FALSE, FALSE, FALSE)
             /\ UNCHANGED phase

\* Two instances: the operations of each, and the browser's frames, which
\* run the callbacks of both.
PairNext ==
  \/ Construct(<<>>, Unread)
  \/ OtherConstruct
  \/ \E op \in PairOps \ {"tick"} : Operates(op)
  \/ \E op \in PairOps \ {"tick"} : OtherOperates(op)
  \/ PairFrame

PairSpec == Init /\ [][PairNext]_vars

\* The contexts in which the operations that can happen to the instance of
\* context c end.
Operations(c) == { Operation(op, c) : op \in {p \in PairOps : Possible(p, c)} }

\* The animation-frame callbacks and timers of the page that are not the
\* running instance's.
ForeignPending(w) ==
  [frames |-> {h \in w.rafQueue : h > HandleShift},
   timers |-> {h \in w.timers : h > HandleShift}]

\* C22: no operation on one of two instances on different videos changes
\* anything of the other one: its options, its canvas (filter, opacity,
\* sizes), its previous buffer, its loop flag, its destroyed flag, its
\* observers and listeners, and the animation-frame callback and the timer it
\* has pending.  A frame of the browser, which runs the callbacks of both,
\* leaves each instance as its own callback alone leaves it, and an instance
\* that has no callback pending as it was.
C22_InstancesIndependent ==
  (phase = "live" /\ win.other.phase = "live") =>
    /\ \A in \in UpdateVideoInputs :
          /\ \A r \in Operations(Ctx(in)) :
                /\ r.win.other = win.other
                /\ ForeignPending(r.win) = ForeignPending(win)
          /\ \A r \in Operations(OtherCtx(in)) :
                /\ r.win.other = OtherWin.other
                /\ ForeignPending(r.win) = ForeignPending(OtherWin)
    /\ PairFrameDue =>
          \E f \in {FrameOfB(FrameOfA)} :
             /\ f.win.other.glow =
                   (IF Possible("tick", Ctx(Unread))
                    THEN Operation("tick", Ctx(Unread)).this ELSE glow)
             /\ f.this =
                   (IF Possible("tick", OtherCtx(Unread))
                    THEN Operation("tick", OtherCtx(Unread)).this ELSE Other.glow)

\* Both instances run their loops with a callback and a debounce timer
\* pending and a frame in their buffers, under different options; destroy()
\* of the one cancels its own callback and timer, and the browser's next
\* frame runs the callbacks of both with the same timestamp.
C22_Witness ==
  /\ phase = "live" /\ win.other.phase = "live"
  /\ ~glow.isDestroyed /\ ~win.other.glow.isDestroyed
  /\ glow.options # win.other.glow.options
  /\ win.other.glow.isLooping
  /\ win.other.glow.lastImage.present
  /\ win.other.glow.animationFrameId + HandleShift \in win.rafQueue
  /\ win.other.glow.resizeTimeout + HandleShift \in win.timers
  /\ glow.resizeTimeout \in win.timers
  /\ destroy(Ctx(Unread)).fx.cancels = 2
  /\ ForeignPending(destroy(Ctx(Unread)).win) = ForeignPending(win)
  /\ PairFrameDue
  /\ PendingOfA(win) # {} /\ PendingOfB(win) # {}
  /\ \E f \in {FrameOfB(FrameOfA)} :
        /\ f.win.other.glow.lastUpdateTime = win.now + 49
        /\ f.this.lastUpdateTime = win.now + 49
        /\ f.win.frames = win.frames + 1

(***************************************************************************)
(* The video element                                                       *)
(***************************************************************************)
\* What the instance may only read of a video element: its readiness, its
\* playback state, the frame of its source and its sizes, and its being
\* under its parent.
ReadOnly(v) ==
  [readyState |-> v.readyState, paused |-> v.paused, ended |-> v.ended,
   frame |-> v.frame, videoWidth |-> v.videoWidth, videoHeight |-> v.videoHeight,
   rect |-> v.rect, hasParent |-> v.hasParent]

\* What operation op reads of the video, in every playback state.
OpInputs(op) ==
  VideoInputs(op \in {"loadstart", "canplay", "play", "seeked", "update", "tick", "timer"},
              op \in {"loadedmetadata", "canplay", "update", "timer", "construct"},
              TRUE)

\* C23: no operation of the instance and no callback of it, in any state and
\* whatever the video is doing, changes the video's readiness, playback
\* state, frame or sizes or takes it from its parent; the canvas enters the
\* document in the constructor and leaves it in destroy() only.
C23_VideoOnlyRead ==
  /\ phase = "new" =>
       \A o \in ConstructOptions, in \in OpInputs("construct") :
          ReadOnly(ConstructResult(o, in).video) = ReadOnly(Ctx(in).video)
  /\ phase = "live" =>
       /\ \A op \in PairOps : \A in \in OpInputs(op) :
             LET r == Operation(op, Ctx(in))
             IN  /\ ReadOnly(r.video) = ReadOnly(Ctx(in).video)
                 /\ op # "destroy" =>
                      r.this.canvas.connected = glow.canvas.connected
       /\ \A b \in BOOLEAN, in \in OpInputs("intersection") :
             LET r == BatchResult(<<b>>, in)
             IN  /\ ReadOnly(r.video) = ReadOnly(Ctx(in).video)
                 /\ r.this.canvas.connected = glow.canvas.connected

\* The loop runs on a playing video with the canvas in the document; the
\* ended event stops the loop and the video's state is what it was, and
\* destroy() takes the canvas out and leaves the video under its parent.
C23_Witness ==
  /\ phase = "live"
  /\ glow.isLooping
  /\ glow.canvas.connected
  /\ \E in \in OpInputs("ended") :
        /\ in.ended
        /\ ~Operation("ended", Ctx(in)).this.isLooping
        /\ Operation("ended", Ctx(in)).video.ended
  /\ ~DestroyResult.this.canvas.connected
  /\ DestroyResult.video.hasParent

(***************************************************************************)
(* Construction                                                            *)
(***************************************************************************)
\* C24: a construction that succeeds on a video that has a current frame and
\* a size has resized the surfaces and made a cut: when the constructor
\* returns, the visible surface shows the frame and the instance has a
\* previous buffer.
C24_ConstructionSamples ==
  phase = "new" =>
    \A o \in ConstructOptions, in \in ConstructInputs :
       LET r == ConstructResult(o, in)
       IN  (/\ r.fx.threw = ""
            /\ in.readyState >= VIDEO_READY_STATE_CURRENT_DATA
            /\ in.videoWidth > 0 /\ in.videoHeight > 0) =>
              /\ r.fx.resizes = 1
              /\ r.fx.cuts = 1
              /\ r.this.canvas.pixels = in.frame
              /\ r.this.lastImage.present

(***************************************************************************)
(* Resumption after a visibility gap                                       *)
(***************************************************************************)
\* The instance's animation-frame callback, called by the browser at time t
\* after an operation that ended in context c.
Tick(c, t) ==
  animationLoop([c EXCEPT !.win.rafQueue = @ \ {c.this.animationFrameId},
                          !.win.now = t,
                          !.fx = NoFx], t)

\* The video comes back into view while it plays, and two animation frames
\* follow, the second one a full interval after the first: the contexts in
\* which the first and the second one end.
Resumptions ==
  IF phase = "live" /\ ~glow.isDestroyed /\ ~glow.isVisible
  THEN { LET first == Tick(BatchResult(<<TRUE>>,
                                       [in EXCEPT !.paused = FALSE, !.ended = FALSE]),
                           win.now + 49)
         IN  <<first, Tick(first, win.now + 49 + glow.options.updateInterval)>> :
            in \in {i \in FrameInputs : i.readyState >= 2 /\ ~i.fail} }
  ELSE {}

\* C25: when the video re-enters the viewport while playing and the loop
\* resumes, the first sample the loop makes is a cut: it is not blended with
\* the buffer from before the gap.
C25_CutAfterVisibilityGap ==
  glow.lastImage.present =>
     \A p \in Resumptions :
        /\ p[1].fx.passes + p[2].fx.passes >= 1
        /\ p[1].fx.blends = 0
        /\ p[1].fx.passes = 0 => p[2].fx.blends = 0

(***************************************************************************)
(* Resize signals in time.  window.setTimeout(f, RESIZE_DEBOUNCE_MS) makes *)
(* f due RESIZE_DEBOUNCE_MS after the call; the browser runs f when it is  *)
(* due unless the timer was cleared before.                                *)
(***************************************************************************)
\* Time from one resize signal to the next while a timer is pending (less
\* than the quiet window), or from anything to the first signal of a burst.
SignalGaps == {30, 99}

SignalResult(gap) == debouncedResize([Ctx(Unread) EXCEPT !.win.now = @ + gap])

\* A resize signal arrives gap ms from now, before the pending timer is due.
SignalArrives(gap) ==
  /\ ResizeDue
  /\ hist.debounce.signals < MaxSignals
  /\ win.timers # {} => win.now + gap < hist.debounce.due
  /\ glow' = SignalResult(gap).this
  /\ win' = SignalResult(gap).win
  /\ hist' = [hist EXCEPT
                !.debounce.due = win.now + gap + RESIZE_DEBOUNCE_MS,
                !.debounce.last = win.now + gap,
                !.debounce.bursts = IF win.timers = {} THEN @ + 1 ELSE @,
                !.debounce.signals = @ + 1]
  /\ UNCHANGED <<phase, video>>

QuietResult(id, in) ==
  resizeTimeoutCallback([Ctx(in) EXCEPT !.win.timers = @ \ {id},
                                        !.win.now = hist.debounce.due])

\* No signal came before the pending timer was due: the browser runs it.
QuietWindowEnds(in) ==
  /\ phase = "live"
  /\ \E id \in win.timers :
        /\ glow' = QuietResult(id, in).this
        /\ win' = QuietResult(id, in).win
  /\ hist' = [hist EXCEPT !.debounce.fires = @ + 1,
                          !.debounce.firedAt = hist.debounce.due]
  /\ UNCHANGED <<phase, video>>

DebounceNext ==
  \/ \E o \in ConstructOptions, in \in ConstructInputs : Construct(o, in)
  \/ \E gap \in SignalGaps : SignalArrives(gap)
  \/ \E in \in TimerInputs : QuietWindowEnds(in)

DebounceSpec == Init /\ [][DebounceNext]_vars

\* C26: at most one debounce timer is pending; a resize signal clears the
\* pending one and starts another and itself resizes and samples nothing; of
\* a burst of signals, each less than the quiet window after the one before,
\* the timer fires once, one quiet window after the last signal, and then
\* makes one resize followed by one sample pass that is not forced, leaving
\* no timer pending.
C26_ResizeSignalsCoalesced ==
  /\ Cardinality(win.timers) <= 1
  /\ win.timers # {} =>
        /\ win.timers = {glow.resizeTimeout}
        /\ hist.debounce.fires = hist.debounce.bursts - 1
        /\ win.now < hist.debounce.due
  /\ win.timers = {} => hist.debounce.fires = hist.debounce.bursts
  /\ hist.debounce.fires > 0 =>
        /\ hist.debounce.firedAt <= win.now
        /\ win.timers = {} =>
              hist.debounce.firedAt = hist.debounce.last + RESIZE_DEBOUNCE_MS
  /\ ResizeDue =>
        \A gap \in SignalGaps :
           LET r == SignalResult(gap)
           IN  /\ Cardinality(r.win.timers) = 1
               /\ win.timers # {} => r.fx.cancels = 1
               /\ NoSample(r) /\ NoResize(r)
  /\ \A id \in win.timers, in \in TimerInputs :
        LET r == QuietResult(id, in)
            ready == in.readyState >= VIDEO_READY_STATE_CURRENT_DATA
        IN  /\ r.win.timers = {}
            /\ r.fx.styled = (IF in.videoWidth > 0 THEN 1 ELSE 0)
            /\ r.fx.draws = (IF ready THEN 1 ELSE 0)
            /\ r.fx.cuts + r.fx.blends = (IF ready /\ ~in.fail THEN 1 ELSE 0)
            /\ (ready /\ ~in.fail) =>
                  (r.fx.blends = 1 <=> (glow.lastImage.present /\ r.fx.resizes = 0))

\* A burst of three signals, 30 and 99 ms apart, has ended with one firing of
\* the timer, 100 ms after the third signal, and a second burst is under way.
C26_Witness ==
  /\ hist.debounce.signals = 4
  /\ hist.debounce.bursts = 2
  /\ hist.debounce.fires = 1
  /\ hist.debounce.firedAt = 30 + 30 + 99 + RESIZE_DEBOUNCE_MS
  /\ win.timers # {}
  /\ glow.lastImage.present

(***************************************************************************)
(* Resizing                                                                *)
(***************************************************************************)
\* Native sizes and displayed boxes of a video, each dimension known or 0.
SizeInputs ==
  { [Unread EXCEPT !.videoWidth = vw, !.videoHeight = vh,
                   !.rect = [width |-> rw, height |-> rh]] :
       vw \in {0, 20}, vh \in {0, 10}, rw \in {0, 100}, rh \in {0, 50} }

\* The width and height a resize goes by: the native one, or the displayed
\* one when the native one is 0.
EffectiveWidth(in) == IF in.videoWidth = 0 THEN in.rect.width ELSE in.videoWidth

EffectiveHeight(in) == IF in.videoHeight = 0 THEN in.rect.height ELSE in.videoHeight

\* C27: a resize while the video's effective width or height is 0 or less
\* changes nothing: not the pixel sizes of the two surfaces, not the CSS size
\* of the visible one, not the previous buffer; with both above 0 it sets the
\* CSS size; and construction on a video without size succeeds and leaves the
\* surfaces at their initial size.
C27_NoResizeWithoutSize ==
  \A in \in SizeInputs :
     LET sizeless == EffectiveWidth(in) <= 0 \/ EffectiveHeight(in) <= 0
     IN  /\ (phase = "live" /\ ~glow.isDestroyed) =>
              LET r == resizeCanvas(Ctx(in))
              IN  IF sizeless
                  THEN NoResize(r) /\ r.this = glow /\ r.fx = NoFx
                  ELSE r.fx.styled = 1
         /\ (phase = "new" /\ sizeless) =>
              \A o \in ConstructOptions :
                 LET r == ConstructResult(o, in)
                 IN  /\ r.fx.threw # "" =>
                          ~video.hasParent \/ ~win.context2d["canvas"]
                                            \/ ~win.context2d["temporary canvas"]
                     /\ r.fx.resizes = 0 /\ r.fx.styled = 0
                     /\ r.this.canvas.width = DefaultCanvasSize.width
                     /\ r.this.canvas.height = DefaultCanvasSize.height
                     /\ r.this.canvas.styleWidth = 0
                     /\ ~r.this.lastImage.present

\* The surfaces are 2 x 1 and the instance holds a buffer; a resize while the
\* video reports a width but no height, natively or displayed, changes
\* nothing.
C27_Witness ==
  /\ phase = "live" /\ ~glow.isDestroyed
  /\ glow.canvas.width = 2 /\ glow.canvas.height = 1
  /\ glow.canvas.styleWidth > 0
  /\ glow.lastImage.present
  /\ \E in \in SizeInputs :
        /\ in.videoWidth = 20 /\ in.rect.width = 100
        /\ in.videoHeight = 0 /\ in.rect.height = 0
        /\ resizeCanvas(Ctx(in)).this = glow

(***************************************************************************)
(* The video's container                                                   *)
(***************************************************************************)
\* Containers: the position given inline (or not), and by the style sheets.
Containers ==
  { [stylePosition |-> s, cssPosition |-> p] :
       s \in {"", "absolute", "relative"},
       p \in {"static", "absolute", "fixed", "relative", "sticky"} }

\* C28: construction leaves the position of a container that is positioned
\* (absolute, fixed, relative, sticky), inline or by a style sheet, as it is,
\* and makes a static container relative.
C28_ContainerPositioning ==
  (phase = "new" /\ video.hasParent) =>
    \A p \in Containers :
       LET r == constructor([Ctx(Unread) EXCEPT !.video.parent = p], <<>>)
       IN  r.fx.threw = "" =>
             IF ComputedPosition(p) = "static"
             THEN ComputedPosition(r.video.parent) = "relative"
             ELSE r.video.parent = p


(***************************************************************************)
(* The cadence of the loop's samples.                                      *)
(***************************************************************************)
\* C29: when the loop samples, it sets lastUpdateTime to the frame's
\* timestamp less (elapsed mod updateInterval); so after each of the loop's
\* samples lastUpdateTime is at most the sample's timestamp and less than
\* updateInterval before it, and it stays congruent modulo updateInterval to
\* the baseline, the timestamp of the first frame of the loop.
C29_CadenceDoesNotDrift ==
  /\ hist.sampledAt # 0 =>
        /\ 0 <= hist.sampledAt - glow.lastUpdateTime
        /\ hist.sampledAt - glow.lastUpdateTime < glow.options.updateInterval
  /\ glow.lastUpdateTime # 0 /\ hist.baseline # 0 =>
        (glow.lastUpdateTime - hist.baseline) % glow.options.updateInterval = 0
  /\ \A f \in SamplingFrames :
        LET t == win.now + f.step
            last == IF glow.lastUpdateTime = 0 THEN t ELSE glow.lastUpdateTime
        IN  FrameResult(f.step, f.in).this.lastUpdateTime =
              t - ((t - last) % glow.options.updateInterval)

\* The loop has sampled at a frame that came later than a whole number of
\* intervals after the baseline: the threshold lies before the sample.
C29_Witness ==
  /\ hist.sampledAt # 0
  /\ hist.baseline # 0
  /\ glow.lastUpdateTime > hist.baseline
  /\ glow.lastUpdateTime < hist.sampledAt

(***************************************************************************)
(* updateOptions and the size of the surfaces.                             *)
(***************************************************************************)
\* C30: updateOptions resizes exactly when it changes the value of downscale
\* or of scale: an update of a live instance that names neither, or names one
\* with the value it has, sets no pixel size and no CSS size and leaves a
\* previous buffer in place; one that changes a value sets the CSS size once
\* when the video has a size.
C30_ResizeOnlyOnChange ==
  (phase = "live" /\ ~glow.isDestroyed) =>
    \A o \in { <<>>, [blur |-> 120], [downscale |-> glow.options.downscale],
               [scale |-> glow.options.scale], [downscale |-> 50] },
       in \in UpdateVideoInputs :
       LET r == UpdateResult(o, in)
           changed == \E k \in {"downscale", "scale"} :
                         Defined(o, k) /\ o[k] # glow.options[k]
       IN  IF changed
           THEN EffectiveWidth(in) > 0 /\ EffectiveHeight(in) > 0 =>
                  r.fx.styled = 1
           ELSE /\ r.fx.styled = 0
                /\ r.fx.resizes = 0
                /\ glow.lastImage.present => r.this.lastImage.present

(***************************************************************************)
(* The sizes a resize sets.                                                *)
(***************************************************************************)
\* Values of downscale, in hundredths: the least, the default, the greatest.
Downscales == {1, 8, 29, 50}

\* w is the number x rounded to the nearest integer (halves up) and raised
\* to 1 if that is less: 1 when x < 3/2, and w - 1/2 <= x < w + 1/2 otherwise.
IsFlooredRound(w, x) ==
  \E twice \in {Plus(x, x)} :
     IF Less(twice, Integer(3)) THEN w = 1
     ELSE /\ ~Less(twice, Integer(2 * w - 1))
          /\ Less(twice, Integer(2 * w + 1))

\* The surfaces of instance this have the sizes that a resize by inputs in
\* sets: pixel sizes from the video's width and height (the native ones, the
\* displayed ones where the native ones are 0) times downscale, CSS sizes
\* from the displayed box times scale.
SizedBy(this, in) ==
  /\ IsFlooredRound(this.canvas.width,
                    Product(EffectiveWidth(in), this.options.downscale))
  /\ IsFlooredRound(this.canvas.height,
                    Product(EffectiveHeight(in), this.options.downscale))
  /\ this.tempCanvas.width = this.canvas.width
  /\ this.tempCanvas.height = this.canvas.height
  /\ this.canvas.styleWidth = in.rect.width * this.options.scale
  /\ this.canvas.styleHeight = in.rect.height * this.options.scale

\* C31: after a resize of a live instance on a video with a width and a
\* height, by a resize of its own or by an update of downscale to any value
\* from 0.01 to 0.5, each pixel dimension of the surfaces is
\* max(1, round(dimension * downscale)), the product being the number the
\* program's arithmetic gives for it, and the CSS size of the visible
\* surface is the displayed box times scale; and the pixel dimensions of a
\* live instance's surfaces are 1 or more in every state.
C31_ResizeSizes ==
  /\ phase = "live" =>
        /\ glow.canvas.width >= 1 /\ glow.canvas.height >= 1
        /\ glow.tempCanvas.width >= 1 /\ glow.tempCanvas.height >= 1
  /\ (phase = "live" /\ ~glow.isDestroyed) =>
        \A in \in SizeInputs :
           (EffectiveWidth(in) > 0 /\ EffectiveHeight(in) > 0) =>
              /\ SizedBy(resizeCanvas(Ctx(in)).this, in)
              /\ \A d \in Downscales :
                    LET r == UpdateResult([downscale |-> d], in)
                    IN  /\ r.this.options.downscale = d
                        /\ SizedBy(r.this, in)

\* The surfaces are 10 x 5 after an update of downscale to 0.5 on a 20 x 10
\* video shown 100 x 50; an update of downscale to 0.01 makes them 1 x 1;
\* and an update of downscale to 0.29 on a video 20 wide whose height is not
\* known and which is shown 50 high makes them 6 x 14: 50 * 0.29 is the
\* double 14.499999999999998 .
C31_Witness ==
  /\ phase = "live" /\ ~glow.isDestroyed
  /\ glow.options.downscale = 50
  /\ glow.canvas.width = 10 /\ glow.canvas.height = 5
  /\ glow.canvas.styleWidth = 100 * glow.options.scale
  /\ \E in \in SizeInputs :
        /\ in.videoWidth = 20 /\ in.videoHeight = 10
        /\ UpdateResult([downscale |-> 1], in).this.canvas.width = 1
        /\ UpdateResult([downscale |-> 1], in).this.canvas.height = 1
        /\ UpdateResult([downscale |-> 1], in).fx.resizes = 1
  /\ \E in \in SizeInputs :
        /\ in.videoWidth = 20 /\ in.videoHeight = 0 /\ in.rect.height = 50
        /\ UpdateResult([downscale |-> 29], in).this.canvas.width = 6
        /\ UpdateResult([downscale |-> 29], in).this.canvas.height = 14

(***************************************************************************)
(* Pages without ResizeObserver or IntersectionObserver.                   *)
(***************************************************************************)
\* C32: the absence of the observers is no error and changes how the
\* instance listens, not whether: construction throws for a missing parent
\* or 2D context only; an instance that is live and not destroyed gets its
\* resize signals from a ResizeObserver where there is one and from the
\* window's resize event where there is none, never from both; and without
\* IntersectionObserver nothing is observed, isVisible stays true, and a
\* running loop is only stopped by pause, ended or destroy.
C32_OptionalCapabilities ==
  /\ phase = "new" =>
        \A o \in ConstructOptions, in \in ConstructInputs :
           ConstructResult(o, in).fx.threw # "" =>
              ~video.hasParent \/ ~win.context2d["canvas"]
                                \/ ~win.context2d["temporary canvas"]
  /\ (phase = "live" /\ ~glow.isDestroyed) =>
        /\ win.resizeObserving = win.hasResizeObserver
        /\ glow.resizeObserver = win.hasResizeObserver
        /\ ("resize" \in win.windowListeners) = ~win.hasResizeObserver
        /\ ("resize" \in glow.boundHandlers) = ~win.hasResizeObserver
        /\ Possible("resize", Ctx(Unread))
        /\ debouncedResize(Ctx(Unread)).win.timers # {}
  /\ (phase = "live" /\ ~win.hasIntersectionObserver) =>
        /\ ~win.intersectionObserving
        /\ ~glow.intersectionObserver
        /\ glow.isVisible
        /\ \A op \in PairOps : \A in \in OpInputs(op) :
              LET r == Operation(op, Ctx(in))
              IN  /\ r.this.isVisible
                  /\ r.fx.threw = ""
                  /\ (Possible(op, Ctx(in)) /\ glow.isLooping /\ ~r.this.isLooping)
                       => op \in {"pause", "ended", "destroy"}

\* On a page without the observers the loop runs and the timer of a resize
\* signal that came through the window's resize event is pending.
C32_Witness ==
  /\ phase = "live" /\ ~glow.isDestroyed
  /\ ~win.hasResizeObserver /\ ~win.hasIntersectionObserver
  /\ "resize" \in win.windowListeners
  /\ glow.resizeTimeout \in win.timers
  /\ glow.isLooping /\ glow.isVisible
  /\ glow.animationFrameId \in win.rafQueue

(***************************************************************************)
(* A video without dimensions.                                             *)
(***************************************************************************)
\* What the operations read of a video that has no native size and no box.
SizelessInputs ==
  { [in EXCEPT !.videoWidth = 0, !.videoHeight = 0,
               !.rect = [width |-> 0, height |-> 0]] : in \in FrameInputs }

\* C33: a live instance whose surfaces have not been resized yet has no
\* previous buffer, and while the video has no width, height or box every
\* event, animation frame and update leaves it so: nothing is drawn, the
\* visible surface is not written and the previous buffer stays absent.
C33_NoSampleWithoutSize ==
  (/\ phase = "live" /\ ~glow.isDestroyed
   /\ glow.canvas.width = DefaultCanvasSize.width
   /\ glow.canvas.height = DefaultCanvasSize.height
   /\ glow.canvas.styleWidth = 0 /\ glow.canvas.styleHeight = 0) =>
     /\ ~glow.lastImage.present
     /\ \A op \in VideoEventSet \cup {"update", "tick"}, in \in SizelessInputs :
           Possible(op, Ctx(in)) =>
              LET r == Operation(op, Ctx(in))
              IN  /\ r.fx.draws = 0
                  /\ r.this.canvas.pixels = glow.canvas.pixels
                  /\ ~r.this.lastImage.present

(***************************************************************************)
(* Failed construction                                                     *)
(***************************************************************************)
\* C34: a construction that throws has touched nothing outside the instance:
\* the video has the listeners and the parent it had, with the parent's
\* position as it was, the page has no observer, window listener, timer or
\* animation-frame callback it did not have, and the canvas is in no
\* document; and so it is in the state a failed construction leaves.
C34_FailedConstructionLeavesNoTrace ==
  /\ phase = "new" =>
        \A o \in ConstructOptions, in \in ConstructInputs :
           LET r == ConstructResult(o, in)
           IN  r.fx.threw # "" =>
                 /\ r.video.listeners = video.listeners
                 /\ r.video.parent = video.parent
                 /\ r.video.hasParent = video.hasParent
                 /\ r.win = win
                 /\ ~r.this.canvas.connected
                 /\ r.fx.domOps = 0
  /\ phase = "failed" =>
        /\ video.listeners = {}
        /\ video.parent \in ParentStyles
        /\ win.windowListeners = {}
        /\ ~win.resizeObserving /\ ~win.intersectionObserving
        /\ win.rafQueue = {} /\ win.timers = {}
        /\ ~glow.canvas.connected

\* A construction has failed on a video that has a parent, for want of a 2D
\* context.
C34_Witness ==
  /\ phase = "failed"
  /\ video.hasParent
  /\ ~win.context2d["temporary canvas"]
  /\ video.parent.stylePosition = ""

(***************************************************************************)
(* The loop's flag and its callback.  One instance on a video that always  *)
(* has a frame: play, pause, ended and seeked events, reports of the        *)
(* video's entering and leaving the viewport, animation frames, destroy.    *)
(***************************************************************************)
LoopEvents == {"play", "pause", "ended", "seeked"}

LoopNext ==
  \/ Construct(<<>>, Unread)
  \/ \E e \in LoopEvents : VideoEvent(e, Unread)
  \/ \E b \in BOOLEAN : IntersectionChange(b)
  \/ \E in \in DeliverInputs : IntersectionDeliver(in)
  \/ \E step \in FrameSteps : AnimationFrame(step, Unread)
  \/ Destroy

LoopSpec == Init /\ [][LoopNext]_vars

\* The contexts in which the operations of LoopNext that can run in the
\* current state end, each with the operation's name.
LoopOutcomes ==
  IF phase # "live" THEN {}
  ELSE { [op |-> e, r |-> EventResult(e, Unread)] :
            e \in LoopEvents \cap video.listeners }
       \cup (IF DeliverDue
             THEN { [op |-> "deliver", r |-> DeliverResult(in)] : in \in DeliverInputs }
             ELSE {})
       \cup (IF FrameDue
             THEN { [op |-> "tick", r |-> FrameResult(step, Unread)] :
                       step \in FrameSteps }
             ELSE {})
       \cup { [op |-> "destroy", r |-> DestroyResult] }

\* C35: between the callbacks of a live instance, while isLooping is true
\* exactly one animation-frame callback is pending and animationFrameId is
\* its handle; no operation leaves the loop running with nothing scheduled;
\* and a set animationFrameId is cleared only by an animation frame that
\* finds isLooping false, or by destroy.
C35_RunningLoopIsScheduled ==
  /\ (phase = "live" /\ glow.isLooping) =>
        /\ glow.animationFrameId # 0
        /\ win.rafQueue = {glow.animationFrameId}
  /\ \A o \in LoopOutcomes :
        /\ o.r.this.isLooping =>
              /\ o.r.this.animationFrameId # 0
              /\ o.r.win.rafQueue = {o.r.this.animationFrameId}
        /\ (glow.animationFrameId # 0 /\ o.r.this.animationFrameId = 0) =>
              \/ o.op = "tick" /\ ~glow.isLooping
              \/ o.op = "destroy"

\* The loop runs, two animation frames have come and its one callback is
\* pending; a pause now stops the loop and leaves the callback pending.
C35_Witness ==
  /\ phase = "live" /\ glow.isLooping
  /\ win.frames = 2
  /\ win.rafQueue = {glow.animationFrameId}
  /\ \E o \in LoopOutcomes :
        o.op = "pause" /\ ~o.r.this.isLooping /\ o.r.win.rafQueue = win.rafQueue

(***************************************************************************)
(* The loop while the video is outside the viewport.                       *)
(***************************************************************************)
\* C36: while the last report of the IntersectionObserver said that the
\* video is outside the viewport (isVisible is false), the loop of a live
\* instance is not running, and no video event starts it.
C36_NoLoopOutsideViewport ==
  (phase = "live" /\ ~glow.isVisible) =>
     /\ ~glow.isLooping
     /\ \A o \in LoopOutcomes :
           o.op \in LoopEvents => ~o.r.this.isLooping

(***************************************************************************)
(* The loop in time.  The browser runs a pending animation-frame callback  *)
(* at its next frame: an animation frame that stays due comes.             *)
(***************************************************************************)
LoopFairSpec ==
  LoopSpec /\ WF_vars(\E step \in FrameSteps : AnimationFrame(step, Unread))

\* The loop is stopped and nothing is pending.
Quiescent == ~glow.isLooping /\ win.rafQueue = {}

\* C37: once the loop of a live instance is stopped (by pause, ended, a
\* report that the video left the viewport, or destroy), and animation
\* frames are still to come, then either the loop is started again or a
\* state comes in which no animation-frame callback is pending; and from a
\* state in which the loop is stopped and nothing is pending, a step that
\* does not start the loop requests no callback.
C37_StoppedLoopQuiesces ==
  /\ (phase = "live" /\ ~glow.isLooping /\ win.frames < MaxFrames)
        ~> (Quiescent \/ glow.isLooping)
  /\ [][(phase = "live" /\ Quiescent /\ ~glow'.isLooping) => win'.rafQueue = {}]_vars

\* The loop ran, a pause stopped it, and the callback that was pending has
\* come and found it stopped: nothing is pending and no handle is held.
C37_Witness ==
  /\ phase = "live" /\ ~glow.isDestroyed
  /\ Quiescent
  /\ glow.animationFrameId = 0
  /\ hist.frozen
  /\ win.frames >= 1
  /\ glow.isVisible

(***************************************************************************)
(* The loop without an end.  Timestamps of animation frames count from a   *)
(* time origin and the loop reads only their distance to lastUpdateTime     *)
(* (and whether lastUpdateTime is 0, unset); here the clock's origin is     *)
(* moved after every frame so that a set lastUpdateTime is updateInterval,  *)
(* and frames are not counted, so that time has no end.  hist.sampledAt is  *)
(* the time of the loop's last sample on this clock, 0 when the loop has    *)
(* not sampled since it last was without a threshold.                       *)
(***************************************************************************)
\* How far the clock's origin moves after a frame that ended in context r.
OriginShift(r) ==
  IF r.this.lastUpdateTime = 0 THEN r.win.now
  ELSE r.this.lastUpdateTime - r.this.options.updateInterval

\* The context r in which a frame ended, on the clock with its origin moved;
\* the frame is not counted.
Rebased(r) ==
  [r EXCEPT !.this.lastUpdateTime = IF @ = 0 THEN 0 ELSE @ - OriginShift(r),
            !.win.now = @ - OriginShift(r),
            !.win.frames = @ - 1]

\* The browser runs the pending animation-frame callback, step ms after the
\* last frame.  (f: the context in which the callback ends; r: the same on
\* the moved clock.)
ClockFrame(step) ==
  /\ phase = "live"
  /\ win.rafQueue # {}
  /\ \E f \in {FrameResult(step, Unread)} : \E r \in {Rebased(f)} :
        /\ glow' = r.this
        /\ win' = r.win
        /\ hist' = [hist EXCEPT !.sampledAt =
                       IF f.fx.draws > 0 THEN r.win.now
                       ELSE IF @ = 0 \/ glow.lastUpdateTime = 0
                                     \/ f.this.lastUpdateTime = 0 THEN 0
                       ELSE @ - OriginShift(f)]
  /\ UNCHANGED <<phase, video>>

CadenceNext ==
  \/ Construct(<<>>, Unread)
  \/ \E e \in {"play", "pause"} : VideoEvent(e, Unread)
  \/ \E step \in JitterSteps : ClockFrame(step)

CadenceSpec ==
  Init /\ [][CadenceNext]_vars /\ WF_vars(\E step \in JitterSteps : ClockFrame(step))

\* The loop has sampled at the last animation frame.
SampledNow == hist.sampledAt # 0 /\ hist.sampledAt = win.now

\* C38: if from some time on the instance is live and its loop runs, on a
\* video that is ready and with animation frames that keep coming, the loop
\* samples again and again; and the loop's first animation frame after a
\* start with no threshold set makes no sample and sets the threshold to its
\* timestamp, a frame that makes no sample leaves the threshold as it is, and
\* a frame that samples comes updateInterval or more after the threshold: the
\* first sample comes no earlier than updateInterval after the first frame.
C38_RunningLoopKeepsSampling ==
  /\ <>[](phase = "live" /\ glow.isLooping) => []<>SampledNow
  /\ [](\A step \in JitterSteps :
          (phase = "live" /\ win.rafQueue # {} /\ glow.isLooping) =>
             LET r == FrameResult(step, Unread)
                 t == win.now + step
             IN  IF glow.lastUpdateTime = 0
                 THEN r.fx.passes = 0 /\ r.this.lastUpdateTime = t
                 ELSE IF r.fx.passes = 0
                 THEN r.this.lastUpdateTime = glow.lastUpdateTime
                 ELSE /\ r.fx.passes = 1 /\ r.fx.draws = 1
                      /\ t - glow.lastUpdateTime >= glow.options.updateInterval)

\* The loop runs and has sampled at the last animation frame, at a time that
\* is not a whole number of intervals after its first frame.
C38_Witness ==
  /\ phase = "live" /\ glow.isLooping
  /\ SampledNow
  /\ glow.lastUpdateTime < win.now
  /\ glow.lastImage.present
=============================================================================
